---- MODULE Spec2Model ----
(***************************************************************************)
(* Tick-data ingestion and repair pipeline of database/data/raw:           *)
(*   scanner.py         integrity scanner over one HDF5 container file     *)
(*   parallel_patch.py  chunkify, backfill workers, Fold (merge_hdf5_files)*)
(*                      decompose_by_instrument, merge_instrument_file     *)
(*   fetch_tick_data.py the bounded call of the external tick source       *)
(*   store_tick_data.py the append of fetched records to a raw file        *)
(*   batch_update.py    the incremental updater (run_fetch)                *)
(*                                                                         *)
(* Representation.  A date is the tuple <<y, m, d>>; the string            *)
(* "%Y-%m-%d" of a date is the same tuple (fixed-width fields, so string   *)
(* order and tuple order agree).  A key "/instr/yYYYY/mMM/dDD" is the      *)
(* tuple <<instr, y, m, d>>.  A store is a function from the keys it holds *)
(* to tables; a table is [st, rows] where st is "good", "notable" (the day *)
(* group exists without a table dataset) or "unreadable" (reading the      *)
(* dataset raises).  A file is [exists, t].  None is <<>>.                 *)
(***************************************************************************)
EXTENDS Integers, Sequences, FiniteSets, Bags, TLC

VARIABLES
    scan_pc,        \* scan_hdf5: "idle", "scan" (inside the loops), "done", "raised"
    scan_f,         \* the store of the file scan_hdf5 has open
    scan_range,     \* <<start_date, end_date>>, each a date or None
    s_i,            \* position in f.keys() (instruments of the file)
    s_dates,        \* the dates the loops visit for that instrument, in order
    s_k,            \* position in s_dates
    last_good_date, \* scan_hdf5's local
    last_updates,   \* scan_hdf5's result lists
    missing_groups,
    missing_tables,
    \* parallel_patch.py (the script runs top to bottom)
    phase,          \* "workers", "join", "fold", "decompose", "mergeraw", "done"
    all_tasks,      \* the flattened (instrument, date) list
    task_chunks,    \* chunkify(all_tasks, NumChunks)
    wpc,            \* per worker: "queued", "fetch", "open", "put", "done", "raised"
    wi,             \* per worker: position in its chunk
    wdata,          \* per worker: the records fetched and not yet stored
    fetched,        \* per worker: the tasks passed to the tick source, in order,
                    \* each with what came back: "raised", "empty" or "data"
                    \* ("store_raised": data whose store into the temp file raised)
    temp,           \* temp file name -> file
    final,          \* final_tick_data.h5
    split,          \* instrument -> split_by_instrument/<instrument>_tick_data.h5
    raw,            \* instrument -> 2015_tick_data/<instrument>_tick_data.h5
    fold_i,         \* position of Fold in temp_files
    mpc,            \* per instrument: "none", "queued", "merging", "done"
    open_w,         \* <<actor, file name>>: the files open for writing
    final_pre,      \* history: final when Fold opened it
    temp_pre,       \* history: temp when Fold opened final
    raw_pre,        \* history: raw when the merge pool was started
    split_pre,      \* history: split when decompose_by_instrument was called
    sh_in,          \* chunkify's arguments <<lst, n>>
    sh_out,         \* chunkify's result (None before the call)
    \* batch_update.py
    symbols_dates,  \* the (symbol, last_date) rows of last_tick_update.csv
    upc,            \* per row: "queued", "fetch", "open", "put", and, when
                    \* run_fetch has returned, "skipped", "done" or "failed"
    start_date,     \* per row: run_fetch's local
    tick_data,      \* per row: the records fetched and not yet stored
    calls,          \* per row: the dates passed to the tick source, in order
    \* scanner.py: main
    main_pc,        \* "idle", "collect" (inside as_completed), "done"
    hdf5_files,     \* the stores of the files found in the data folder
    main_range,     \* <<args.start_date, args.end_date>>
    futures,        \* the files whose process_file result is not collected yet
    all_last_updates,
    all_missing_groups,
    all_missing_tables,
    grouped,        \* group_missing_days' result (None before the call)
    \* parallel_patch.py run a second time
    run,            \* 1 in the first run of the script, 2 in the second
    source,         \* task -> the tick source's answer, for the tasks whose
                    \* answer is fixed (the same in every run)
    raw_first,      \* history: raw when the first run ended
    fetched_first,  \* history: fetched when the first run ended
    \* patch.py, manual_update.py and dukascopy_fetcher.py
    p_calls,        \* per instrument: the <<start_date, end_date>> arguments of
                    \* its calls of fetch_and_store_tick_data, in order
    ppc,            \* per instrument: "queued", "fetch", "csv" (before the read
                    \* of exempted_days.csv), "write" (before to_csv), "done"
    p_n,            \* per instrument: the call it is in
    p_start,        \* per instrument: start_date of the call it is in
    exempted_days,  \* per instrument: the list of the call it is in
    combined_df,    \* per instrument: the rows to be written by to_csv
    exempted_csv,   \* exempted_days.csv: [exists, rows], a row is <<asset, date>>
    p_log,          \* history, per instrument: the days fetched in the call it
                    \* is in, each with what came back
    p_added         \* history: the rows of every list that reached to_csv

scan_vars == <<scan_pc, scan_f, scan_range, s_i, s_dates, s_k, last_good_date,
               last_updates, missing_groups, missing_tables>>

pipe_vars == <<phase, all_tasks, task_chunks, wpc, wi, wdata, fetched, temp, final,
               split, raw, fold_i, mpc, open_w, final_pre, temp_pre, raw_pre, split_pre>>

shard_vars == <<sh_in, sh_out>>

upd_vars == <<symbols_dates, upc, start_date, tick_data, calls>>

main_vars == <<main_pc, hdf5_files, main_range, futures, all_last_updates,
               all_missing_groups, all_missing_tables, grouped>>

twice_vars == <<run, source, raw_first, fetched_first>>

patch_vars == <<p_calls, ppc, p_n, p_start, exempted_days, combined_df, exempted_csv,
                p_log, p_added>>

vars == <<scan_vars, pipe_vars, shard_vars, upd_vars, main_vars, twice_vars, patch_vars>>

----------------------------------------------------------------------------
(* Bounds of the model.                                                    *)

\* Most keys a store drawn for an initial state holds.
MaxKeys == 2

Instruments == <<"EURUSD", "XAUUSD">>

\* The calendar months the model's date ranges cover.
CalMonths == {<<2024, 1>>, <<2024, 2>>}

\* The days a partition of an initial store may lie on: Tue, Wed, Thu,
\* Sat of the first week of 2024 and Thu 2024-02-01.
CandDates ==
    {<<2024, 1, 2>>, <<2024, 1, 3>>, <<2024, 1, 4>>, <<2024, 1, 6>>, <<2024, 2, 1>>}

None == <<>>

----------------------------------------------------------------------------
(* Generic helpers.                                                        *)

Range(s) == {s[i] : i \in DOMAIN s}

Min(S) == CHOOSE x \in S : \A y \in S : x <= y

RECURSIVE SortedSeq(_)
\* sorted(S) for a finite set of integers.
SortedSeq(S) ==
    IF S = {} THEN <<>>
    ELSE LET m == Min(S) IN <<m>> \o SortedSeq(S \ {m})

RECURSIVE Concat(_)
\* The concatenation of a sequence of sequences.
Concat(ss) ==
    IF ss = <<>> THEN <<>> ELSE Head(ss) \o Concat(Tail(ss))

----------------------------------------------------------------------------
(* Calendar: datetime(y, m, d).weekday() and calendar.monthrange.          *)

IsLeap(y) == (y % 4 = 0 /\ y % 100 # 0) \/ y % 400 = 0

monthrange(y, m) ==
    IF m = 2 THEN (IF IsLeap(y) THEN 29 ELSE 28)
    ELSE IF m \in {4, 6, 9, 11} THEN 30 ELSE 31

DaysBeforeYear(y) ==
    (y - 1) * 365 + ((y - 1) \div 4) - ((y - 1) \div 100) + ((y - 1) \div 400)

RECURSIVE DaysBeforeMonth(_, _)
DaysBeforeMonth(y, m) ==
    IF m = 1 THEN 0 ELSE DaysBeforeMonth(y, m - 1) + monthrange(y, m - 1)

\* date.toordinal(): 0001-01-01 is day 1.
toordinal(date) ==
    DaysBeforeYear(date[1]) + DaysBeforeMonth(date[1], date[2]) + date[3]

\* date.weekday(): Monday is 0, Saturday is 5.
weekday(date) == (toordinal(date) + 6) % 7

\* datetime comparison.
DateLE(a, b) == toordinal(a) <= toordinal(b)
DateLT(a, b) == toordinal(a) < toordinal(b)

\* Every calendar date of the months the model covers.
CalDates ==
    UNION {{<<ym[1], ym[2], d>> : d \in 1..monthrange(ym[1], ym[2])} : ym \in CalMonths}

----------------------------------------------------------------------------
(* Stores.                                                                 *)

EmptyStore == [k \in {} |-> 0]

Table(st, rows) == [st |-> st, rows |-> rows]

\* One tick record: its timestamp and a value standing for the quote
\* fields.
Tick(ts, v) == [timestamp |-> ts, v |-> v]

KeyOf(instrument, date) == <<instrument, date[1], date[2], date[3]>>

\* The stores over the given key slots that hold at most n keys, each
\* table drawn from tabs[key].
RECURSIVE StoresUpTo(_, _, _)
StoresUpTo(slots, n, tabs) ==
    IF n = 0 \/ slots = {} THEN {EmptyStore}
    ELSE LET k == CHOOSE x \in slots : TRUE
             rest == slots \ {k}
         IN StoresUpTo(rest, n, tabs)
            \cup {[x \in (DOMAIN s) \cup {k} |-> IF x = k THEN t ELSE s[x]] :
                    s \in StoresUpTo(rest, n - 1, tabs), t \in tabs[k]}

----------------------------------------------------------------------------
(* scanner.py                                                              *)

\* _ = dset[...]: the full read of the dataset; it raises on a dataset
\* that cannot be decoded.
ReadDataset(table) == IF table.st = "unreadable" THEN "raise" ELSE "ok"

\* Mutant: the read without the try statement.
is_dataset_good_noexcept(table) ==
    IF ReadDataset(table) = "raise" THEN "raise" ELSE "True"

\* is_dataset_good(dset): "True" when the read succeeds; the exception of
\* a failed read is caught and the result is "False".
is_dataset_good(table) ==
    IF ReadDataset(table) = "raise" THEN "False" ELSE "True"

\* Mutant: every date of the month.
valid_dates_all(year, month) ==
    [d \in 1..monthrange(year, month) |-> <<year, month, d>>]

\* valid_dates(year, month): the dates of the month in ascending order,
\* Saturdays left out.
valid_dates(year, month) ==
    SelectSeq([d \in 1..monthrange(year, month) |-> <<year, month, d>>],
              LAMBDA date : weekday(date) # 5)

\* f.keys(): the instrument groups of the file, in name order.
FileInstruments(f) ==
    SelectSeq(Instruments, LAMBDA i : \E k \in DOMAIN f : k[1] = i)

\* sorted(f[instrument].keys()): the year groups under an instrument.
YearKeys(f, instrument) ==
    SortedSeq({k[2] : k \in {x \in DOMAIN f : x[1] = instrument}})

\* Mutant: the month groups in descending order.
MonthKeys_descending(f, instrument, year) ==
    LET up == SortedSeq({k[3] : k \in {x \in DOMAIN f : x[1] = instrument /\ x[2] = year}})
    IN [j \in DOMAIN up |-> up[Len(up) + 1 - j]]

\* sorted(year_group.keys()): the month groups under a year group.
MonthKeys(f, instrument, year) ==
    SortedSeq({k[3] : k \in {x \in DOMAIN f : x[1] = instrument /\ x[2] = year}})

\* The dates the three nested loops of scan_hdf5 visit for one instrument,
\* in the order they visit them.
ScanDates(f, instrument) ==
    LET years == YearKeys(f, instrument)
        OfYear(y) ==
            LET months == MonthKeys(f, instrument, y)
            IN Concat([j \in DOMAIN months |-> valid_dates(y, months[j])])
    IN Concat([j \in DOMAIN years |-> OfYear(years[j])])

\* Mutant: the end date excluded.
InScanRange_halfopen(date, range) ==
    /\ (range[1] = None \/ DateLE(range[1], date))
    /\ (range[2] = None \/ DateLT(date, range[2]))

\* (not start_date or date_obj >= start_date) and
\* (not end_date or date_obj <= end_date)
InScanRange(date, range) ==
    /\ (range[1] = None \/ DateLE(range[1], date))
    /\ (range[2] = None \/ DateLE(date, range[2]))

\* The classification of one date: the body of the innermost loop.
\* "good", "table" (missing_tables), "group" (missing_groups), "none"
\* (outside the range: recorded nowhere) or "raise" (an exception leaves
\* the loop).
Classify(f, instrument, date, range) ==
    LET key == KeyOf(instrument, date)
    IN IF key \notin DOMAIN f
       THEN (IF InScanRange(date, range) THEN "group" ELSE "none")
       ELSE IF f[key].st # "notable" /\ is_dataset_good(f[key]) = "raise" THEN "raise"
       ELSE IF f[key].st # "notable" /\ is_dataset_good(f[key]) = "True" THEN "good"
       ELSE IF InScanRange(date, range) THEN "table" ELSE "none"

\* The instrument the scan is at.
CurInstrument == FileInstruments(scan_f)[s_i]

\* The dates of the i-th instrument of the file (none past the last one).
DatesOfNth(f, i) ==
    IF i <= Len(FileInstruments(f)) THEN ScanDates(f, FileInstruments(f)[i]) ELSE <<>>

\* One iteration of "for date_obj in valid_dates(year, month)".
ScanStep ==
    /\ scan_pc = "scan"
    /\ s_i <= Len(FileInstruments(scan_f))
    /\ s_k <= Len(s_dates)
    /\ LET date == s_dates[s_k]
           c == Classify(scan_f, CurInstrument, date, scan_range)
       IN /\ last_good_date' = IF c = "good" THEN date ELSE last_good_date
          /\ missing_tables' =
                IF c = "table" THEN Append(missing_tables, <<CurInstrument, date>>)
                ELSE missing_tables
          /\ missing_groups' =
                IF c = "group" THEN Append(missing_groups, <<CurInstrument, date>>)
                ELSE missing_groups
          /\ scan_pc' = IF c = "raise" THEN "raised" ELSE scan_pc
    /\ s_k' = s_k + 1
    /\ UNCHANGED <<scan_f, scan_range, s_i, s_dates, last_updates>>
    /\ UNCHANGED <<pipe_vars, shard_vars, upd_vars, main_vars, twice_vars, patch_vars>>

\* The end of one pass of "for instrument in f.keys()".
ScanInstrumentEnd ==
    /\ scan_pc = "scan"
    /\ s_i <= Len(FileInstruments(scan_f))
    /\ s_k > Len(s_dates)
    /\ last_updates' =
          IF last_good_date # None
          THEN Append(last_updates, <<CurInstrument, last_good_date>>)
          ELSE last_updates
    /\ last_good_date' = None
    /\ s_i' = s_i + 1
    /\ s_dates' = DatesOfNth(scan_f, s_i + 1)
    /\ s_k' = 1
    /\ UNCHANGED <<scan_pc, scan_f, scan_range, missing_groups, missing_tables>>
    /\ UNCHANGED <<pipe_vars, shard_vars, upd_vars, main_vars, twice_vars, patch_vars>>

\* return last_updates, missing_groups, missing_tables
ScanReturn ==
    /\ scan_pc = "scan"
    /\ s_i > Len(FileInstruments(scan_f))
    /\ scan_pc' = "done"
    /\ UNCHANGED <<scan_f, scan_range, s_i, s_dates, s_k, last_good_date,
                   last_updates, missing_groups, missing_tables>>
    /\ UNCHANGED <<pipe_vars, shard_vars, upd_vars, main_vars, twice_vars, patch_vars>>

----------------------------------------------------------------------------
(* scanner.py: process_file, group_missing_days, main                      *)

\* The three lists scan_hdf5 returns for a file, the loops run to their
\* end; raised = TRUE when an exception leaves them.
ScanResult(f, range) ==
    LET instruments == FileInstruments(f)
        Of(i, c) == LET ds == SelectSeq(ScanDates(f, i),
                                        LAMBDA d : Classify(f, i, d, range) = c)
                    IN [j \in DOMAIN ds |-> <<i, ds[j]>>]
        Last(i) == LET good == Of(i, "good")
                   IN IF good = <<>> THEN <<>> ELSE <<good[Len(good)]>>
    IN [raised |-> \E j \in DOMAIN instruments : Of(instruments[j], "raise") # <<>>,
        last_updates |-> Concat([j \in DOMAIN instruments |-> Last(instruments[j])]),
        missing_groups |-> Concat([j \in DOMAIN instruments |-> Of(instruments[j], "group")]),
        missing_tables |-> Concat([j \in DOMAIN instruments |-> Of(instruments[j], "table")])]

\* process_file: scan_hdf5's lists, or three empty lists when it raised.
process_file(f, range) ==
    LET r == ScanResult(f, range)
    IN IF r.raised
       THEN [last_updates |-> <<>>, missing_groups |-> <<>>, missing_tables |-> <<>>]
       ELSE [last_updates |-> r.last_updates, missing_groups |-> r.missing_groups,
             missing_tables |-> r.missing_tables]

\* group_missing_days: grouped[instrument].append(date_str) for each pair,
\* in the order of the list.
group_missing_days(pairs) ==
    [i \in {e[1] : e \in Range(pairs)} |->
        LET own == SelectSeq(pairs, LAMBDA e : e[1] = i)
        IN [j \in DOMAIN own |-> own[j][2]]]

\* One pass of "for future in as_completed(futures)": the result of a file
\* whose scan has finished, whichever finished, extends the three lists.
MainCollect(n) ==
    /\ main_pc = "collect"
    /\ n \in futures
    /\ LET r == process_file(hdf5_files[n], main_range)
       IN /\ all_last_updates' = all_last_updates \o r.last_updates
          /\ all_missing_groups' = all_missing_groups \o r.missing_groups
          /\ all_missing_tables' = all_missing_tables \o r.missing_tables
    /\ futures' = futures \ {n}
    /\ UNCHANGED <<main_pc, hdf5_files, main_range, grouped>>
    /\ UNCHANGED <<scan_vars, pipe_vars, shard_vars, upd_vars, twice_vars, patch_vars>>

\* After the pool: grouped_missing = group_missing_days(all_missing_groups)
\* and the CSV files are written.
MainGroup ==
    /\ main_pc = "collect"
    /\ futures = {}
    /\ grouped' = group_missing_days(all_missing_groups)
    /\ main_pc' = "done"
    /\ UNCHANGED <<hdf5_files, main_range, futures, all_last_updates,
                   all_missing_groups, all_missing_tables>>
    /\ UNCHANGED <<scan_vars, pipe_vars, shard_vars, upd_vars, twice_vars, patch_vars>>

----------------------------------------------------------------------------
(* Bounds and inputs of the backfill run.                                  *)

\* The number of chunks and temp files (32 in the script).
NumChunks == 2

\* Most dates the CSV lists for one instrument.
MaxDates == 2

\* Longest list handed to chunkify on its own, and largest shard count.
MaxTasks == 4
MaxShards == 3

\* ThreadPoolExecutor(max_workers=28)
PoolSize == 28

\* The dates of the missing-day CSV.
TaskDates == {<<2024, 1, 3>>, <<2024, 1, 4>>}

Workers == 0..(NumChunks - 1)

----------------------------------------------------------------------------
(* File names.                                                             *)

\* Mutant: one temp file name for every worker.
TempFile_shared(worker_id) == <<"temp_worker", "", 0>>

\* f"temp_worker_{worker_id}.h5"
TempFile(worker_id) == <<"temp_worker", "", worker_id>>
FinalFile == <<"final_tick_data", "", 0>>
SplitFile(instrument) == <<"split_by_instrument", instrument, 0>>
RawFile(instrument) == <<"2015_tick_data", instrument, 0>>

\* temp_files = [f"temp_worker_{i}.h5" for i in range(32)]
temp_files == [j \in 1..NumChunks |-> <<"temp_worker", "", j - 1>>]

NoFile == [exists |-> FALSE, t |-> EmptyStore]
File(t) == [exists |-> TRUE, t |-> t]

----------------------------------------------------------------------------
(* Timestamps.  A timestamp counts hours since 1970-01-01 UTC: the code's *)
(* milliseconds exceed the 32-bit integers of TLC.                         *)

TsOf(date, hour) == (toordinal(date) - toordinal(<<1970, 1, 1>>)) * 24 + hour

\* The dates a record of the model can fall on.
TsDates == CalDates

\* pd.to_datetime(ts, unit='ms') and .dt.year, .dt.month, .dt.day
DateOfTs(ts) ==
    CHOOSE date \in TsDates :
        toordinal(date) - toordinal(<<1970, 1, 1>>) = ts \div 24

NextDay(date) ==
    CHOOSE n \in TsDates : toordinal(n) = toordinal(date) + 1

----------------------------------------------------------------------------
(* Store operations (pandas HDFStore).                                     *)

\* store.put(key, df, format='table'): creates the table or replaces it.
store_put(store, key, table) ==
    [k \in (DOMAIN store) \cup {key} |-> IF k = key THEN table ELSE store[k]]

\* key in store: a node exists at the path.
HasKey(store, key) == key \in DOMAIN store

\* store[key]: raises when the table cannot be read.
Readable(store, key) == key \in DOMAIN store /\ store[key].st = "good"

InstrumentIndex(i) == CHOOSE j \in DOMAIN Instruments : Instruments[j] = i

KeyLT(a, b) ==
    \/ InstrumentIndex(a[1]) < InstrumentIndex(b[1])
    \/ /\ a[1] = b[1]
       /\ toordinal(<<a[2], a[3], a[4]>>) < toordinal(<<b[2], b[3], b[4]>>)

RECURSIVE KeysSeqOf(_)
KeysSeqOf(S) ==
    IF S = {} THEN <<>>
    ELSE LET m == CHOOSE x \in S : \A y \in S \ {x} : KeyLT(x, y)
         IN <<m>> \o KeysSeqOf(S \ {m})

\* store.keys(): the keys in path order.
keys(store) == KeysSeqOf(DOMAIN store)

----------------------------------------------------------------------------
(* parallel_patch.py: chunkify                                             *)

RECURSIVE Distribute(_, _, _, _)
\* for i, item in enumerate(remainder): chunks[i % n].append(item)
Distribute(chunks, remainder, i, n) ==
    IF i >= Len(remainder) THEN chunks
    ELSE Distribute([chunks EXCEPT ![(i % n) + 1] = Append(@, remainder[i + 1])],
                    remainder, i + 1, n)

\* Mutant: the remainder all goes to the first chunk.
chunkify_first(lst, n) ==
    LET avg == Len(lst) \div n
    IN [j \in 1..n |->
          IF j = 1 THEN SubSeq(lst, 1, avg) \o SubSeq(lst, n * avg + 1, Len(lst))
          ELSE SubSeq(lst, (j - 1) * avg + 1, j * avg)]

\* chunkify(lst, n); chunk number i of the code is chunks[i + 1] here.
chunkify(lst, n) ==
    LET avg == Len(lst) \div n
        chunks == [j \in 1..n |-> SubSeq(lst, (j - 1) * avg + 1, j * avg)]
        remainder == SubSeq(lst, n * avg + 1, Len(lst))
    IN Distribute(chunks, remainder, 0, n)

\* The call of chunkify on its own.
ShardApply ==
    /\ sh_out = None
    /\ sh_out' = chunkify(sh_in[1], sh_in[2])
    /\ UNCHANGED sh_in
    /\ UNCHANGED <<scan_vars, pipe_vars, upd_vars, main_vars, twice_vars, patch_vars>>

----------------------------------------------------------------------------
(* fetch_tick_data.py                                                      *)

\* What the node subprocess can do for one (asset, date): exit 0 with a
\* JSON list on stdout, exit non-zero, run past the timeout, print what is
\* no JSON, or fail to start (subprocess.run raises OSError).
FetchOutcomes(date) ==
    {[kind |-> "ok", data |-> <<>>],
     [kind |-> "ok", data |-> <<Tick(TsOf(date, 9), 1)>>],
     [kind |-> "ok", data |-> <<Tick(TsOf(date, 9), 2), Tick(TsOf(date, 10), 2)>>],
     [kind |-> "ok", data |-> <<Tick(TsOf(date, 23), 1), Tick(TsOf(NextDay(date), 0), 1)>>],
     [kind |-> "exit_nonzero", data |-> <<>>],
     [kind |-> "timeout", data |-> <<>>],
     [kind |-> "bad_json", data |-> <<>>],
     [kind |-> "os_error", data |-> <<>>]}

\* What the tick source can answer to the request of a task: anything it
\* can answer for the date, or, for a task whose answer is fixed, that one.
SourceOutcomes(task) ==
    IF task \in DOMAIN source THEN {source[task]} ELSE FetchOutcomes(task[2])

\* fetch_tick_data_for_day: the list returned, or raised = TRUE when the
\* exception is none of those the function catches.
fetch_tick_data_for_day(outcome) ==
    IF outcome.kind = "ok" THEN [raised |-> FALSE, data |-> outcome.data]
    ELSE IF outcome.kind \in {"exit_nonzero", "timeout", "bad_json"}
    THEN [raised |-> FALSE, data |-> <<>>]
    ELSE [raised |-> TRUE, data |-> <<>>]

----------------------------------------------------------------------------
(* parallel_patch.py: worker                                               *)

Running == {w \in Workers : wpc[w] \in {"fetch", "open", "put"}}

\* Mutant: every worker is handed the whole task list.
ChunkOf_all(w) == all_tasks

\* The chunk of worker w: task_chunks[i] of "for i, chunk in enumerate".
ChunkOf(w) == task_chunks[w + 1]

\* Mutant: the try statement around the loop, not inside it.
WorkerOnException_propagate == "raise"

\* except Exception as e: print(...), inside the for loop: the loop goes
\* on with the next task ("next"), the exception does not leave worker.
WorkerOnException == "next"

\* The worker's state after a task ended by an exception.
AfterException(w) ==
    IF WorkerOnException = "next"
    THEN /\ wpc' = [wpc EXCEPT ![w] = "fetch"]
         /\ wi' = [wi EXCEPT ![w] = @ + 1]
    ELSE /\ wpc' = [wpc EXCEPT ![w] = "raised"]
         /\ wi' = wi

\* Mutant: the whole frame is put under the key of its first group.
PutGroups_onekey(store, instrument, data, dates) ==
    IF dates = <<>> THEN store
    ELSE store_put(store, KeyOf(instrument, Head(dates)), Table("good", data))

RECURSIVE PutGroups(_, _, _, _)
\* for (y, m, d), group in df.groupby(['year', 'month', 'day']):
\*     store.put(key, group.drop(...), format='table', data_columns=True)
PutGroups(store, instrument, data, dates) ==
    IF dates = <<>> THEN store
    ELSE LET g == Head(dates)
             group == SelectSeq(data, LAMBDA r : DateOfTs(r.timestamp) = g)
         IN PutGroups(store_put(store, KeyOf(instrument, g), Table("good", group)),
                      instrument, data, Tail(dates))

\* The groups of groupby, in key order.
GroupDates(data) ==
    LET ds == {DateOfTs(data[j].timestamp) : j \in DOMAIN data}
        ords == SortedSeq({toordinal(d) : d \in ds})
    IN [j \in DOMAIN ords |-> CHOOSE d \in ds : toordinal(d) = ords[j]]

\* executor.submit(worker, i, chunk): a pool thread takes the next chunk.
WStart(w) ==
    /\ phase = "workers"
    /\ wpc[w] = "queued"
    /\ \A v \in Workers : v < w => wpc[v] # "queued"
    /\ Cardinality(Running) < PoolSize
    /\ wpc' = [wpc EXCEPT ![w] = "fetch"]
    /\ UNCHANGED <<phase, all_tasks, task_chunks, wi, wdata, fetched, temp, final,
                   split, raw, fold_i, mpc, open_w, final_pre, temp_pre, raw_pre, split_pre>>
    /\ UNCHANGED <<scan_vars, shard_vars, upd_vars, main_vars, twice_vars, patch_vars>>

\* data = fetch_tick_data_for_day(instrument, date); if data: ...
WFetch(w) ==
    /\ wpc[w] = "fetch"
    /\ wi[w] <= Len(ChunkOf(w))
    /\ LET task == ChunkOf(w)[wi[w]]
       IN \E outcome \in SourceOutcomes(task) :
            LET r == fetch_tick_data_for_day(outcome)
                res == IF r.raised THEN "raised"
                       ELSE IF r.data = <<>> THEN "empty" ELSE "data"
            IN /\ fetched' = [fetched EXCEPT ![w] =
                                 Append(@, [task |-> task, res |-> res])]
               /\ IF r.raised
                  THEN AfterException(w) /\ wdata' = wdata
                  ELSE IF r.data = <<>>
                  THEN /\ wpc' = wpc
                       /\ wi' = [wi EXCEPT ![w] = @ + 1]
                       /\ wdata' = wdata
                  ELSE /\ wpc' = [wpc EXCEPT ![w] = "open"]
                       /\ wi' = wi
                       /\ wdata' = [wdata EXCEPT ![w] = r.data]
    /\ UNCHANGED <<phase, all_tasks, task_chunks, temp, final,
                   split, raw, fold_i, mpc, open_w, final_pre, temp_pre, raw_pre, split_pre>>
    /\ UNCHANGED <<scan_vars, shard_vars, upd_vars, main_vars, twice_vars, patch_vars>>

\* with pd.HDFStore(temp_file, mode='a') as store: the file is created
\* when it does not exist; the open can raise.
WOpen(w) ==
    /\ wpc[w] = "open"
    /\ \/ /\ wpc' = [wpc EXCEPT ![w] = "put"]
          /\ wi' = wi
          /\ wdata' = wdata
          /\ temp' = [temp EXCEPT ![TempFile(w)] = File(@.t)]
          /\ open_w' = open_w \cup {<<<<"worker", "", w>>, TempFile(w)>>}
          /\ fetched' = fetched
       \/ /\ AfterException(w)
          /\ wdata' = [wdata EXCEPT ![w] = <<>>]
          /\ fetched' = [fetched EXCEPT ![w] =
                            [@ EXCEPT ![Len(@)] = [@ EXCEPT !.res = "store_raised"]]]
          /\ UNCHANGED <<temp, open_w>>
    /\ UNCHANGED <<phase, all_tasks, task_chunks, final,
                   split, raw, fold_i, mpc, final_pre, temp_pre, raw_pre, split_pre>>
    /\ UNCHANGED <<scan_vars, shard_vars, upd_vars, main_vars, twice_vars, patch_vars>>

\* The puts of the with block, and its exit (the file is closed).
WPut(w) ==
    /\ wpc[w] = "put"
    /\ LET task == ChunkOf(w)[wi[w]]
       IN temp' = [temp EXCEPT ![TempFile(w)] =
                      File(PutGroups(@.t, task[1], wdata[w], GroupDates(wdata[w])))]
    /\ open_w' = open_w \ {<<<<"worker", "", w>>, TempFile(w)>>}
    /\ wpc' = [wpc EXCEPT ![w] = "fetch"]
    /\ wi' = [wi EXCEPT ![w] = @ + 1]
    /\ wdata' = [wdata EXCEPT ![w] = <<>>]
    /\ UNCHANGED <<phase, all_tasks, task_chunks, fetched, final,
                   split, raw, fold_i, mpc, final_pre, temp_pre, raw_pre, split_pre>>
    /\ UNCHANGED <<scan_vars, shard_vars, upd_vars, main_vars, twice_vars, patch_vars>>

\* The for loop of worker is exhausted: worker returns.
WReturn(w) ==
    /\ wpc[w] = "fetch"
    /\ wi[w] > Len(ChunkOf(w))
    /\ wpc' = [wpc EXCEPT ![w] = "done"]
    /\ UNCHANGED <<phase, all_tasks, task_chunks, wi, wdata, fetched, temp, final,
                   split, raw, fold_i, mpc, open_w, final_pre, temp_pre, raw_pre, split_pre>>
    /\ UNCHANGED <<scan_vars, shard_vars, upd_vars, main_vars, twice_vars, patch_vars>>

\* Mutant: the script goes on without waiting for the workers.
WorkersJoin_nowait ==
    /\ phase = "workers"
    /\ phase' = "fold"
    /\ UNCHANGED <<all_tasks, task_chunks, wpc, wi, wdata, fetched, temp, final,
                   split, raw, fold_i, mpc, open_w, final_pre, temp_pre, raw_pre, split_pre>>
    /\ UNCHANGED <<scan_vars, shard_vars, upd_vars, main_vars, twice_vars, patch_vars>>

\* The end of "with ThreadPoolExecutor(...) as executor": shutdown waits
\* for every submitted worker (returned or raised).
WorkersJoin ==
    /\ phase = "workers"
    /\ \A w \in Workers : wpc[w] \in {"done", "raised"}
    /\ phase' = "fold"
    /\ UNCHANGED <<all_tasks, task_chunks, wpc, wi, wdata, fetched, temp, final,
                   split, raw, fold_i, mpc, open_w, final_pre, temp_pre, raw_pre, split_pre>>
    /\ UNCHANGED <<scan_vars, shard_vars, upd_vars, main_vars, twice_vars, patch_vars>>

----------------------------------------------------------------------------
(* parallel_patch.py: merge_hdf5_files (Fold)                              *)

\* Mutant: a key the canonical store holds is left as it is.
fold_put_skip(final_store, key, df) ==
    IF HasKey(final_store, key) THEN final_store ELSE store_put(final_store, key, df)

\* final_store.put(key, df, format='table', data_columns=True)
fold_put(final_store, key, df) == store_put(final_store, key, df)

RECURSIVE FoldKeys(_, _, _)
\* for key in keys: df = temp_store[key]; final_store.put(key, df, ...)
\* A read that raises ends the loop (except Exception).
FoldKeys(final_store, temp_store, ks) ==
    IF ks = <<>> THEN final_store
    ELSE IF ~Readable(temp_store, Head(ks)) THEN final_store
    ELSE FoldKeys(fold_put(final_store, Head(ks), temp_store[Head(ks)]),
                  temp_store, Tail(ks))

RECURSIVE merge_hdf5_files(_, _, _)
\* merge_hdf5_files(temp_files, final_file) as a function of the list it
\* is given: the store of final_file after the loop over the list.
merge_hdf5_files(final_store, files, order) ==
    IF order = <<>> THEN final_store
    ELSE LET f == files[Head(order)]
         IN merge_hdf5_files(IF f.exists THEN FoldKeys(final_store, f.t, keys(f.t))
                                         ELSE final_store,
                             files, Tail(order))

\* with pd.HDFStore(final_file, mode='a') as final_store
FoldOpen ==
    /\ phase = "fold"
    /\ phase' = "folding"
    /\ final' = File(final.t)
    /\ final_pre' = final
    /\ temp_pre' = temp
    /\ fold_i' = 1
    /\ open_w' = open_w \cup {<<<<"fold", "", 0>>, FinalFile>>}
    /\ UNCHANGED <<all_tasks, task_chunks, wpc, wi, wdata, fetched, temp,
                   split, raw, mpc, raw_pre, split_pre>>
    /\ UNCHANGED <<scan_vars, shard_vars, upd_vars, main_vars, twice_vars, patch_vars>>

\* Mutant: the loop body without its try statement: a read that raises
\* leaves merge_hdf5_files.
FoldFile_noexcept ==
    /\ phase = "folding"
    /\ fold_i <= Len(temp_files)
    /\ LET name == temp_files[fold_i]
       IN IF ~temp[name].exists
          THEN UNCHANGED <<final, temp, phase>>
          ELSE IF \E k \in DOMAIN temp[name].t : ~Readable(temp[name].t, k)
          THEN /\ final' = File(FoldKeys(final.t, temp[name].t, keys(temp[name].t)))
               /\ temp' = temp
               /\ phase' = "raised"
          ELSE /\ final' = File(FoldKeys(final.t, temp[name].t, keys(temp[name].t)))
               /\ temp' = [temp EXCEPT ![name] = NoFile]
               /\ phase' = phase
    /\ fold_i' = fold_i + 1
    /\ UNCHANGED <<all_tasks, task_chunks, wpc, wi, wdata, fetched,
                   split, raw, mpc, open_w, final_pre, temp_pre, raw_pre, split_pre>>
    /\ UNCHANGED <<scan_vars, shard_vars, upd_vars, main_vars, twice_vars, patch_vars>>

\* One pass of "for temp in temp_files": a missing file is skipped; the
\* keys of an existing one are put into final_store and, in the finally
\* clause, the file is removed.
FoldFile ==
    /\ phase = "folding"
    /\ fold_i <= Len(temp_files)
    /\ LET name == temp_files[fold_i]
       IN IF ~temp[name].exists
          THEN UNCHANGED <<final, temp>>
          ELSE /\ final' = File(FoldKeys(final.t, temp[name].t, keys(temp[name].t)))
               /\ temp' = [temp EXCEPT ![name] = NoFile]
    /\ fold_i' = fold_i + 1
    /\ UNCHANGED <<phase, all_tasks, task_chunks, wpc, wi, wdata, fetched,
                   split, raw, mpc, open_w, final_pre, temp_pre, raw_pre, split_pre>>
    /\ UNCHANGED <<scan_vars, shard_vars, upd_vars, main_vars, twice_vars, patch_vars>>

\* The end of the with block: final_store is closed.
FoldClose ==
    /\ phase = "folding"
    /\ fold_i > Len(temp_files)
    /\ phase' = "decompose"
    /\ open_w' = open_w \ {<<<<"fold", "", 0>>, FinalFile>>}
    /\ UNCHANGED <<all_tasks, task_chunks, wpc, wi, wdata, fetched, temp, final,
                   split, raw, fold_i, mpc, final_pre, temp_pre, raw_pre, split_pre>>
    /\ UNCHANGED <<scan_vars, shard_vars, upd_vars, main_vars, twice_vars, patch_vars>>

----------------------------------------------------------------------------
(* parallel_patch.py: decompose_by_instrument                              *)

\* instrument_groups[instrument]: the keys of one instrument.
InstrumentKeys(store, instrument) == {k \in DOMAIN store : k[1] = instrument}

\* Mutant: the output file opened with mode='a', the tables of an earlier
\* file kept.
DecomposedFile_append(store, instrument) ==
    File([k \in InstrumentKeys(store, instrument) \cup DOMAIN split[instrument].t |->
            IF k \in DOMAIN store THEN store[k] ELSE split[instrument].t[k]])

\* The output file of one instrument: opened with mode='w' (truncated),
\* then one put per key of the group.
DecomposedFile(store, instrument) ==
    File([k \in InstrumentKeys(store, instrument) |-> store[k]])

decompose_by_instrument ==
    /\ phase = "decompose"
    /\ split' = [i \in DOMAIN split |->
                    IF InstrumentKeys(final.t, i) # {}
                    THEN DecomposedFile(final.t, i)
                    ELSE split[i]]
    /\ split_pre' = split
    /\ phase' = "listing"
    /\ UNCHANGED <<all_tasks, task_chunks, wpc, wi, wdata, fetched, temp, final,
                   raw, fold_i, mpc, open_w, final_pre, temp_pre, raw_pre>>
    /\ UNCHANGED <<scan_vars, shard_vars, upd_vars, main_vars, twice_vars, patch_vars>>

----------------------------------------------------------------------------
(* parallel_patch.py: merge_instrument_file (Merge-into-raw)               *)

\* Mutant: the put without the "key in raw_store" test.
skip_put_overwrite(raw_store, key, df) == store_put(raw_store, key, df)

\* Mutant: an existing table gets the new rows appended.
skip_put_append(raw_store, key, df) ==
    IF HasKey(raw_store, key)
    THEN store_put(raw_store, key, Table("good", raw_store[key].rows \o df.rows))
    ELSE store_put(raw_store, key, df)

\* if key in raw_store: continue
\* df = fetched_store[key]; raw_store.put(key, df, ...)
skip_put(raw_store, key, df) ==
    IF HasKey(raw_store, key) THEN raw_store ELSE store_put(raw_store, key, df)

RECURSIVE MergeKeys(_, _, _)
\* for key in fetched_store.keys(): ...
MergeKeys(raw_store, fetched_store, ks) ==
    IF ks = <<>> THEN raw_store
    ELSE MergeKeys(skip_put(raw_store, Head(ks), fetched_store[Head(ks)]),
                   fetched_store, Tail(ks))

\* merge_instrument_file's loop over the whole fetched file.
MergeResult(raw_store, fetched_store) ==
    MergeKeys(raw_store, fetched_store, keys(fetched_store))

\* instruments = [... for filename in os.listdir(fetched_dir) ...] and the
\* submit of one merge_instrument_file per instrument.
MergeSubmit ==
    /\ phase = "listing"
    /\ phase' = "mergeraw"
    /\ mpc' = [i \in DOMAIN mpc |-> IF split[i].exists THEN "queued" ELSE "none"]
    /\ raw_pre' = raw
    /\ UNCHANGED <<all_tasks, task_chunks, wpc, wi, wdata, fetched, temp, final,
                   split, raw, fold_i, open_w, final_pre, temp_pre, split_pre>>
    /\ UNCHANGED <<scan_vars, shard_vars, upd_vars, main_vars, twice_vars, patch_vars>>

Merging == {i \in DOMAIN mpc : mpc[i] = "merging"}

\* Mutant: no early return, raw_path is opened (and created) in any case.
MergeOpen_create(i) ==
    /\ phase = "mergeraw"
    /\ mpc[i] = "queued"
    /\ Cardinality(Merging) < PoolSize
    /\ mpc' = [mpc EXCEPT ![i] = "merging"]
    /\ open_w' = open_w \cup {<<<<"merge", i, 0>>, RawFile(i)>>}
    /\ UNCHANGED <<phase, all_tasks, task_chunks, wpc, wi, wdata, fetched, temp, final,
                   split, raw, fold_i, final_pre, temp_pre, raw_pre, split_pre>>
    /\ UNCHANGED <<scan_vars, shard_vars, upd_vars, main_vars, twice_vars, patch_vars>>

\* merge_instrument_file up to the with statement: the two early returns,
\* else raw_path is opened with mode='a'.
MergeOpen(i) ==
    /\ phase = "mergeraw"
    /\ mpc[i] = "queued"
    /\ Cardinality(Merging) < PoolSize
    /\ IF ~split[i].exists \/ ~raw[i].exists
       THEN /\ mpc' = [mpc EXCEPT ![i] = "done"]
            /\ open_w' = open_w
       ELSE /\ mpc' = [mpc EXCEPT ![i] = "merging"]
            /\ open_w' = open_w \cup {<<<<"merge", i, 0>>, RawFile(i)>>}
    /\ UNCHANGED <<phase, all_tasks, task_chunks, wpc, wi, wdata, fetched, temp, final,
                   split, raw, fold_i, final_pre, temp_pre, raw_pre, split_pre>>
    /\ UNCHANGED <<scan_vars, shard_vars, upd_vars, main_vars, twice_vars, patch_vars>>

\* The loop of merge_instrument_file and the end of its with block.
MergePut(i) ==
    /\ phase = "mergeraw"
    /\ mpc[i] = "merging"
    /\ raw' = [raw EXCEPT ![i] = File(MergeResult(@.t, split[i].t))]
    /\ mpc' = [mpc EXCEPT ![i] = "done"]
    /\ open_w' = open_w \ {<<<<"merge", i, 0>>, RawFile(i)>>}
    /\ UNCHANGED <<phase, all_tasks, task_chunks, wpc, wi, wdata, fetched, temp, final,
                   split, fold_i, final_pre, temp_pre, raw_pre, split_pre>>
    /\ UNCHANGED <<scan_vars, shard_vars, upd_vars, main_vars, twice_vars, patch_vars>>

\* The end of the second "with ThreadPoolExecutor(...)".
MergeJoin ==
    /\ phase = "mergeraw"
    /\ \A i \in DOMAIN mpc : mpc[i] \in {"none", "done"}
    /\ phase' = "done"
    /\ UNCHANGED <<all_tasks, task_chunks, wpc, wi, wdata, fetched, temp, final,
                   split, raw, fold_i, mpc, open_w, final_pre, temp_pre, raw_pre, split_pre>>
    /\ UNCHANGED <<scan_vars, shard_vars, upd_vars, main_vars, twice_vars, patch_vars>>

----------------------------------------------------------------------------
(* store_tick_data.py                                                      *)

\* Mutant: the put without the read of the existing table.
append_put_replace(store, key, group) == store_put(store, key, Table("good", group))

\* if key in store: existing = store[key]; combined = pd.concat([existing,
\* group]); store.put(key, combined) else: store.put(key, group)
append_put(store, key, group) ==
    IF HasKey(store, key)
    THEN store_put(store, key, Table("good", store[key].rows \o group))
    ELSE store_put(store, key, Table("good", group))

RECURSIVE StoreGroups(_, _, _, _)
\* for (y, m, d), group in df.groupby(['year', 'month', 'day']): ...
\* store[key] raises for a key that holds no readable table; the groups
\* stored before it stay stored.
StoreGroups(store, asset, data, dates) ==
    IF dates = <<>> THEN [raised |-> FALSE, store |-> store]
    ELSE LET g == Head(dates)
             key == KeyOf(asset, g)
             group == SelectSeq(data, LAMBDA r : DateOfTs(r.timestamp) = g)
         IN IF HasKey(store, key) /\ ~Readable(store, key)
            THEN [raised |-> TRUE, store |-> store]
            ELSE StoreGroups(append_put(store, key, group), asset, data, Tail(dates))

\* store_tick_data(df, asset, save_dir) on the store of the asset's file.
store_tick_data(store, asset, data) ==
    IF data = <<>> THEN [raised |-> FALSE, store |-> store]
    ELSE StoreGroups(store, asset, data, GroupDates(data))

----------------------------------------------------------------------------
(* batch_update.py                                                         *)

\* The target end date (the script's is 2025-11-14), inside the calendar
\* of the model: a Sunday.
end_date == <<2024, 1, 7>>

UpdPoolSize == 32

Rows == DOMAIN symbols_dates

Updating == {j \in Rows : upc[j] \in {"fetch", "open", "put"}}

\* What the updater leaves alone of the backfill script's state.
backfill_vars == <<phase, all_tasks, task_chunks, wpc, wi, wdata, fetched, temp, final,
                   split, fold_i, mpc, final_pre, temp_pre, raw_pre, split_pre>>

\* executor.submit(run_fetch, symbol, last_date), up to the while loop:
\* start_date = last_date + 1 day; if start_date >= end_date: return
UStart(j) ==
    /\ upc[j] = "queued"
    /\ \A v \in Rows : v < j => upc[v] # "queued"
    /\ Cardinality(Updating) < UpdPoolSize
    /\ LET first == NextDay(symbols_dates[j][2])
       IN /\ start_date' = [start_date EXCEPT ![j] = first]
          /\ upc' = [upc EXCEPT ![j] = IF DateLE(end_date, first) THEN "skipped" ELSE "fetch"]
    /\ UNCHANGED <<symbols_dates, tick_data, calls, raw, open_w>>
    /\ UNCHANGED <<backfill_vars, scan_vars, shard_vars, main_vars, twice_vars, patch_vars>>

\* One pass of the while loop up to "if tick_data:"; without data the pass
\* ends with start_date += 1 day.  An exception leaves the loop: the try
\* statement is around the whole function.
UFetch(j) ==
    /\ upc[j] = "fetch"
    /\ DateLT(start_date[j], end_date)
    /\ \E outcome \in FetchOutcomes(start_date[j]) :
          LET r == fetch_tick_data_for_day(outcome)
          IN /\ calls' = [calls EXCEPT ![j] = Append(@, start_date[j])]
             /\ IF r.raised
                THEN /\ upc' = [upc EXCEPT ![j] = "failed"]
                     /\ UNCHANGED <<start_date, tick_data>>
                ELSE IF r.data = <<>>
                THEN /\ start_date' = [start_date EXCEPT ![j] = NextDay(@)]
                     /\ UNCHANGED <<upc, tick_data>>
                ELSE /\ upc' = [upc EXCEPT ![j] = "open"]
                     /\ tick_data' = [tick_data EXCEPT ![j] = r.data]
                     /\ start_date' = start_date
    /\ UNCHANGED <<symbols_dates, raw, open_w>>
    /\ UNCHANGED <<backfill_vars, scan_vars, shard_vars, main_vars, twice_vars, patch_vars>>

\* store_tick_data: with pd.HDFStore(hdf5_path, mode='a') as store: the
\* file is created when it does not exist; the open can raise.
UOpen(j) ==
    /\ upc[j] = "open"
    /\ LET symbol == symbols_dates[j][1]
       IN \/ /\ upc' = [upc EXCEPT ![j] = "put"]
             /\ raw' = [raw EXCEPT ![symbol] = File(@.t)]
             /\ open_w' = open_w \cup {<<<<"update", "", j>>, RawFile(symbol)>>}
             /\ tick_data' = tick_data
          \/ /\ upc' = [upc EXCEPT ![j] = "failed"]
             /\ tick_data' = [tick_data EXCEPT ![j] = <<>>]
             /\ UNCHANGED <<raw, open_w>>
    /\ UNCHANGED <<symbols_dates, start_date, calls>>
    /\ UNCHANGED <<backfill_vars, scan_vars, shard_vars, main_vars, twice_vars, patch_vars>>

\* The loop of store_tick_data and the end of its with block; then
\* start_date += 1 day.
UPut(j) ==
    /\ upc[j] = "put"
    /\ LET symbol == symbols_dates[j][1]
           r == store_tick_data(raw[symbol].t, symbol, tick_data[j])
       IN /\ raw' = [raw EXCEPT ![symbol] = File(r.store)]
          /\ open_w' = open_w \ {<<<<"update", "", j>>, RawFile(symbol)>>}
          /\ IF r.raised
             THEN /\ upc' = [upc EXCEPT ![j] = "failed"]
                  /\ start_date' = start_date
             ELSE /\ upc' = [upc EXCEPT ![j] = "fetch"]
                  /\ start_date' = [start_date EXCEPT ![j] = NextDay(@)]
    /\ tick_data' = [tick_data EXCEPT ![j] = <<>>]
    /\ UNCHANGED <<symbols_dates, calls>>
    /\ UNCHANGED <<backfill_vars, scan_vars, shard_vars, main_vars, twice_vars, patch_vars>>

\* The while condition is false: run_fetch returns.
UReturn(j) ==
    /\ upc[j] = "fetch"
    /\ ~DateLT(start_date[j], end_date)
    /\ upc' = [upc EXCEPT ![j] = "done"]
    /\ UNCHANGED <<symbols_dates, start_date, tick_data, calls, raw, open_w>>
    /\ UNCHANGED <<backfill_vars, scan_vars, shard_vars, main_vars, twice_vars, patch_vars>>

----------------------------------------------------------------------------
(* dukascopy_fetcher.py: fetch_and_store_tick_data; patch.py:               *)
(* process_instrument.  patch.py and manual_update.py import the function   *)
(* from fetch_tick_data; dukascopy_fetcher.py holds its only definition.    *)

\* ThreadPoolExecutor(max_workers=32)
PatchPoolSize == 32

RECURSIVE sorted(_)
\* sorted(dates)
sorted(dates) ==
    IF dates = <<>> THEN <<>>
    ELSE LET m == CHOOSE d \in Range(dates) : \A e \in Range(dates) : ~DateLT(e, d)
         IN SelectSeq(dates, LAMBDA d : d = m) \o sorted(SelectSeq(dates, LAMBDA d : d # m))

\* for date in sorted(dates):
\*     fetch_and_store_tick_data(date, date + timedelta(days=1), instrument)
PatchCalls(dates) ==
    [j \in DOMAIN dates |-> <<sorted(dates)[j], NextDay(sorted(dates)[j])>>]

\* combined_df.drop_duplicates(subset=['asset', 'date']): the first of the
\* rows that are equal is kept.
drop_duplicates(rows) ==
    LET keep == {j \in DOMAIN rows : \A k \in 1..(j - 1) : rows[k] # rows[j]}
        idx == SortedSeq(keep)
    IN [n \in DOMAIN idx |-> rows[idx[n]]]

PThreads == DOMAIN p_calls

PRunning == {i \in PThreads : ppc[i] \in {"fetch", "csv", "write"}}

\* The arguments of the call the thread is in.
CallOf(i) == p_calls[i][p_n[i]]

\* The call has ended (returned, or raised into process_instrument's
\* except clause): the for loop goes on with the next date, if any.
AfterCall(i) ==
    IF p_n[i] < Len(p_calls[i])
    THEN /\ ppc' = [ppc EXCEPT ![i] = "fetch"]
         /\ p_n' = [p_n EXCEPT ![i] = @ + 1]
         /\ p_start' = [p_start EXCEPT ![i] = p_calls[i][p_n[i] + 1][1]]
         /\ exempted_days' = [exempted_days EXCEPT ![i] = <<>>]
         /\ p_log' = [p_log EXCEPT ![i] = <<>>]
    ELSE /\ ppc' = [ppc EXCEPT ![i] = "done"]
         /\ UNCHANGED <<p_n, p_start, exempted_days, p_log>>

\* executor.submit(process_instrument, instrument, dates), up to the while
\* loop of the first call: exempted_days = []
PStart(i) ==
    /\ ppc[i] = "queued"
    /\ Cardinality(PRunning) < PatchPoolSize
    /\ ppc' = [ppc EXCEPT ![i] = "fetch"]
    /\ p_start' = [p_start EXCEPT ![i] = CallOf(i)[1]]
    /\ UNCHANGED <<p_calls, p_n, exempted_days, combined_df, exempted_csv, p_log, p_added>>
    /\ UNCHANGED <<pipe_vars, scan_vars, shard_vars, upd_vars, main_vars, twice_vars>>

\* One pass of "while start_date < end_date": the node process is run and
\* its result handled; start_date = next_date.
PFetch(i) ==
    /\ ppc[i] = "fetch"
    /\ DateLT(p_start[i], CallOf(i)[2])
    /\ \E outcome \in FetchOutcomes(p_start[i]), store_ok \in BOOLEAN :
          LET from == p_start[i]
              Logged(kind) == Append(p_log[i], [date |-> from, kind |-> kind])
              GoOn(kind, exempt) ==
                  /\ p_log' = [p_log EXCEPT ![i] = Logged(kind)]
                  /\ exempted_days' =
                        [exempted_days EXCEPT ![i] =
                            IF exempt THEN Append(@, <<i, from>>) ELSE @]
                  /\ p_start' = [p_start EXCEPT ![i] = NextDay(from)]
                  /\ UNCHANGED <<ppc, p_n>>
          IN \/ \* if result.returncode != 0: exempted_days.append(...)
                /\ outcome.kind = "exit_nonzero"
                /\ store_ok
                /\ GoOn("exit_nonzero", TRUE)
                /\ raw' = raw
             \/ \* if not tick_data or not isinstance(tick_data, list)
                /\ outcome.kind = "ok" /\ outcome.data = <<>>
                /\ store_ok
                /\ GoOn("empty", TRUE)
                /\ raw' = raw
             \/ \* with pd.HDFStore(hdf5_path, mode='a') as store: store.put
                /\ outcome.kind = "ok" /\ outcome.data # <<>>
                /\ store_ok
                /\ GoOn("data", FALSE)
                /\ raw' = [raw EXCEPT ![i] =
                              File(PutGroups(@.t, i, outcome.data,
                                             GroupDates(outcome.data)))]
             \/ \* the HDFStore block raises: no except clause of the
                \* function catches it
                /\ outcome.kind = "ok" /\ outcome.data # <<>>
                /\ ~store_ok
                /\ AfterCall(i)
                /\ raw' = raw
             \/ \* except json.JSONDecodeError: print
                /\ outcome.kind = "bad_json"
                /\ store_ok
                /\ GoOn("bad_json", FALSE)
                /\ raw' = raw
             \/ \* except subprocess.TimeoutExpired: print
                /\ outcome.kind = "timeout"
                /\ store_ok
                /\ GoOn("timeout", FALSE)
                /\ raw' = raw
             \/ \* subprocess.run raises another exception
                /\ outcome.kind = "os_error"
                /\ store_ok
                /\ AfterCall(i)
                /\ raw' = raw
    /\ UNCHANGED <<p_calls, combined_df, exempted_csv, p_added>>
    /\ UNCHANGED <<backfill_vars, open_w>>
    /\ UNCHANGED <<scan_vars, shard_vars, upd_vars, main_vars, twice_vars>>

\* The end of the while loop: if exempted_days: ... else the function
\* returns.
PLoopEnd(i) ==
    /\ ppc[i] = "fetch"
    /\ ~DateLT(p_start[i], CallOf(i)[2])
    /\ IF exempted_days[i] # <<>>
       THEN /\ ppc' = [ppc EXCEPT ![i] = "csv"]
            /\ UNCHANGED <<p_n, p_start, exempted_days, p_log>>
       ELSE AfterCall(i)
    /\ UNCHANGED <<p_calls, combined_df, exempted_csv, p_added>>
    /\ UNCHANGED <<pipe_vars, scan_vars, shard_vars, upd_vars, main_vars, twice_vars>>

\* if os.path.exists(csv_path): existing_df = pd.read_csv(csv_path);
\* combined_df = concat, drop_duplicates  else: combined_df = new_df
PCsvRead(i) ==
    /\ ppc[i] = "csv"
    /\ combined_df' =
          [combined_df EXCEPT ![i] =
              IF exempted_csv.exists
              THEN drop_duplicates(exempted_csv.rows \o exempted_days[i])
              ELSE exempted_days[i]]
    /\ ppc' = [ppc EXCEPT ![i] = "write"]
    /\ UNCHANGED <<p_calls, p_n, p_start, exempted_days, exempted_csv, p_log, p_added>>
    /\ UNCHANGED <<pipe_vars, scan_vars, shard_vars, upd_vars, main_vars, twice_vars>>

\* combined_df.to_csv(csv_path, index=False), and the function returns.
PCsvWrite(i) ==
    /\ ppc[i] = "write"
    /\ exempted_csv' = [exists |-> TRUE, rows |-> combined_df[i]]
    /\ p_added' = p_added \cup Range(exempted_days[i])
    /\ AfterCall(i)
    /\ UNCHANGED <<p_calls, combined_df>>
    /\ UNCHANGED <<pipe_vars, scan_vars, shard_vars, upd_vars, main_vars, twice_vars>>

----------------------------------------------------------------------------
(* Initial states.                                                         *)

InstrumentSet == Range(Instruments)

\* A table left by an earlier run.
OldTable(key) == Table("good", <<Tick(TsOf(<<key[2], key[3], key[4]>>, 8), 0)>>)

StoreOfKeys(ks) == [k \in ks |-> OldTable(k)]

\* instrument_dates: the date lists of the missing-day CSV, each ascending
\* (the scanner writes them in scan order).
DateLists ==
    {[j \in 1..Cardinality(S) |->
        CHOOSE d \in S : Cardinality({e \in S : DateLT(e, d)}) = j - 1] :
     S \in {T \in SUBSET TaskDates : Cardinality(T) <= MaxDates}}

\* all_tasks = [(instr, date) for instr, dates in instrument_dates.items()
\*              for date in dates]
Flatten(instrument_dates) ==
    Concat([j \in DOMAIN Instruments |->
              [n \in DOMAIN instrument_dates[Instruments[j]] |->
                  <<Instruments[j], instrument_dates[Instruments[j]][n]>>]])

\* final_tick_data.h5 before the run: absent, or left by an earlier run.
FinalChoices ==
    {NoFile, File(StoreOfKeys({KeyOf("EURUSD", <<2024, 1, 3>>)}))}

\* The raw store files before the run.
RawChoices ==
    {[i \in InstrumentSet |-> NoFile],
     [i \in InstrumentSet |-> File(StoreOfKeys({KeyOf(i, <<2024, 1, 2>>)}))],
     [i \in InstrumentSet |->
        IF i = "EURUSD"
        THEN File(StoreOfKeys({KeyOf(i, <<2024, 1, 2>>), KeyOf(i, <<2024, 1, 4>>)}))
        ELSE NoFile]}

\* split_by_instrument before the run: empty, or a file of an earlier run.
SplitChoices ==
    {[i \in InstrumentSet |-> NoFile],
     [i \in InstrumentSet |->
        IF i = "XAUUSD" THEN File(StoreOfKeys({KeyOf(i, <<2024, 1, 2>>)})) ELSE NoFile]}

ScanIdle ==
    /\ scan_pc = "idle"
    /\ scan_f = EmptyStore
    /\ scan_range = <<None, None>>
    /\ s_i = 1
    /\ s_dates = <<>>
    /\ s_k = 1
    /\ last_good_date = None
    /\ last_updates = <<>>
    /\ missing_groups = <<>>
    /\ missing_tables = <<>>

ShardIdle ==
    /\ sh_in = <<<<>>, 1>>
    /\ sh_out = None

\* batch_update.py with the rows of its CSV file read.
UpdStart(rows) ==
    /\ symbols_dates = rows
    /\ upc = [j \in DOMAIN rows |-> "queued"]
    /\ start_date = [j \in DOMAIN rows |-> None]
    /\ tick_data = [j \in DOMAIN rows |-> <<>>]
    /\ calls = [j \in DOMAIN rows |-> <<>>]

UpdIdle == UpdStart(<<>>)

MainIdle ==
    /\ main_pc = "idle"
    /\ hdf5_files = <<>>
    /\ main_range = <<None, None>>
    /\ futures = {}
    /\ all_last_updates = <<>>
    /\ all_missing_groups = <<>>
    /\ all_missing_tables = <<>>
    /\ grouped = None

\* The script is run once, the tick source's answers are not fixed.
OnceIdle ==
    /\ run = 1
    /\ source = <<>>
    /\ raw_first = <<>>
    /\ fetched_first = <<>>

\* patch.py with no row in its CSV file.
PatchStart(arglists, csv0) ==
    /\ p_calls = arglists
    /\ ppc = [i \in DOMAIN arglists |-> "queued"]
    /\ p_n = [i \in DOMAIN arglists |-> 1]
    /\ p_start = [i \in DOMAIN arglists |-> None]
    /\ exempted_days = [i \in DOMAIN arglists |-> <<>>]
    /\ combined_df = [i \in DOMAIN arglists |-> <<>>]
    /\ exempted_csv = csv0
    /\ p_log = [i \in DOMAIN arglists |-> <<>>]
    /\ p_added = {}

PatchIdle == PatchStart(<<>>, [exists |-> FALSE, rows |-> <<>>])

PipeStartWith(tasks, temp0, final0, split0, raw0) ==
    /\ phase = "workers"
    /\ all_tasks = tasks
    /\ task_chunks = chunkify(tasks, NumChunks)
    /\ wpc = [w \in Workers |-> "queued"]
    /\ wi = [w \in Workers |-> 1]
    /\ wdata = [w \in Workers |-> <<>>]
    /\ fetched = [w \in Workers |-> <<>>]
    /\ temp = temp0
    /\ final = final0
    /\ split = split0
    /\ raw = raw0
    /\ fold_i = 1
    /\ mpc = [i \in InstrumentSet |-> "none"]
    /\ open_w = {}
    /\ final_pre = final0
    /\ temp_pre = temp0
    /\ raw_pre = raw0
    /\ split_pre = split0

\* The start of a run that finds no temp file.
PipeStart(tasks, final0, split0, raw0) ==
    PipeStartWith(tasks, [n \in Range(temp_files) |-> NoFile], final0, split0, raw0)

Init ==
    /\ OnceIdle
    /\ PatchIdle
    /\ ScanIdle
    /\ ShardIdle
    /\ UpdIdle
    /\ MainIdle
    /\ \E instrument_dates \in [InstrumentSet -> DateLists],
          final0 \in FinalChoices, split0 \in SplitChoices, raw0 \in RawChoices :
            PipeStart(Flatten(instrument_dates), final0, split0, raw0)

Next ==
    \/ \E w \in Workers : WStart(w) \/ WFetch(w) \/ WOpen(w) \/ WPut(w) \/ WReturn(w)
    \/ WorkersJoin
    \/ FoldOpen
    \/ FoldFile
    \/ FoldClose
    \/ decompose_by_instrument
    \/ MergeSubmit
    \/ \E i \in InstrumentSet : MergeOpen(i) \/ MergePut(i)
    \/ MergeJoin

Spec == Init /\ [][Next]_vars

----------------------------------------------------------------------------
(* The scan of one file on its own.                                        *)

ScanSlots == {KeyOf(Instruments[i], d) : i \in DOMAIN Instruments, d \in CandDates}

ScanTables ==
    [key \in ScanSlots |->
        {Table("good", <<Tick(TsOf(<<key[2], key[3], key[4]>>, 9), 1)>>),
         Table("notable", <<>>), Table("unreadable", <<>>)}]

\* The --start-date/--end-date pairs of the model.
ScanRanges ==
    {<<None, None>>, <<<<2024, 1, 1>>, <<2024, 1, 5>>>>, <<<<2024, 1, 1>>, <<2024, 1, 4>>>>,
     <<<<2024, 1, 3>>, <<2024, 2, 2>>>>}

PipeIdle ==
    PipeStart(<<>>, NoFile, [i \in InstrumentSet |-> NoFile],
              [i \in InstrumentSet |-> NoFile])

ScanInit ==
    /\ OnceIdle
    /\ PatchIdle
    /\ PipeIdle
    /\ ShardIdle
    /\ UpdIdle
    /\ MainIdle
    /\ scan_pc = "scan"
    /\ scan_f \in StoresUpTo(ScanSlots, MaxKeys, ScanTables)
    /\ scan_range \in ScanRanges
    /\ s_i = 1
    /\ s_dates = DatesOfNth(scan_f, 1)
    /\ s_k = 1
    /\ last_good_date = None
    /\ last_updates = <<>>
    /\ missing_groups = <<>>
    /\ missing_tables = <<>>

ScanNext == ScanStep \/ ScanInstrumentEnd \/ ScanReturn

SpecScan == ScanInit /\ [][ScanNext]_vars

----------------------------------------------------------------------------
(* chunkify on its own.                                                    *)

ShardItems == {<<Instruments[1], d>> : d \in TaskDates}

\* The first 35 dates of the calendar, as one instrument's tasks.
Tasks35 ==
    LET ords == SortedSeq({toordinal(d) : d \in CalDates})
    IN [j \in 1..35 |-> <<Instruments[1], CHOOSE d \in CalDates : toordinal(d) = ords[j]>>]

ShardInit ==
    /\ OnceIdle
    /\ PatchIdle
    /\ PipeIdle
    /\ ScanIdle
    /\ UpdIdle
    /\ MainIdle
    /\ sh_out = None
    /\ \/ \E len \in 0..MaxTasks, n \in 1..MaxShards :
            \E lst \in [1..len -> ShardItems] : sh_in = <<lst, n>>
       \/ sh_in = <<Tasks35, 4>>

ShardNext == ShardApply

SpecShard == ShardInit /\ [][ShardNext]_vars

----------------------------------------------------------------------------
(* The backfill run that finds temp files of an earlier run.               *)

\* The temp files before the run: none; or temp_worker_0.h5 left by an
\* earlier run that ended before Fold removed it: empty, holding a table
\* that cannot be read, or holding a good table.
LeftoverTemps ==
    LET Only(f) == [n \in Range(temp_files) |-> IF n = TempFile(0) THEN f ELSE NoFile]
    IN {Only(NoFile),
        Only(File(EmptyStore)),
        Only(File([k \in {KeyOf("EURUSD", <<2024, 1, 2>>)} |-> Table("unreadable", <<>>)])),
        Only(File(StoreOfKeys({KeyOf("EURUSD", <<2024, 1, 3>>)})))}

RerunInit ==
    /\ OnceIdle
    /\ PatchIdle
    /\ ScanIdle
    /\ ShardIdle
    /\ UpdIdle
    /\ MainIdle
    /\ \E instrument_dates \in [InstrumentSet -> DateLists],
          temp0 \in LeftoverTemps, final0 \in FinalChoices, raw0 \in RawChoices :
            PipeStartWith(Flatten(instrument_dates), temp0, final0,
                          [i \in InstrumentSet |-> NoFile], raw0)

SpecRerun == RerunInit /\ [][Next]_vars

----------------------------------------------------------------------------
(* The incremental updater on its own.                                     *)

MaxRows == 2

\* The last-good dates of the CSV rows: the Friday (one date to fetch) and
\* the Saturday (none) before end_date; and, for a CSV file of one row, a
\* Thursday (two dates to fetch).
LastDates == {<<2024, 1, 5>>, <<2024, 1, 6>>}

EarlyLastDate == <<2024, 1, 4>>

\* The raw files before the update: none; or EURUSD with a table on the
\* Friday; or EURUSD with an unreadable table on the Friday.
UpdRawChoices ==
    {[i \in InstrumentSet |-> NoFile],
     [i \in InstrumentSet |->
        IF i = "EURUSD" THEN File(StoreOfKeys({KeyOf(i, <<2024, 1, 5>>)})) ELSE NoFile],
     [i \in InstrumentSet |->
        IF i = "EURUSD"
        THEN File([k \in {KeyOf(i, <<2024, 1, 5>>)} |-> Table("unreadable", <<>>)])
        ELSE NoFile]}

UpdInit ==
    /\ OnceIdle
    /\ PatchIdle
    /\ ScanIdle
    /\ ShardIdle
    /\ MainIdle
    /\ \E raw0 \in UpdRawChoices :
          PipeStart(<<>>, NoFile, [i \in InstrumentSet |-> NoFile], raw0)
    /\ \/ \E n \in 0..MaxRows :
            \E rows \in [1..n -> InstrumentSet \X LastDates] : UpdStart(rows)
       \/ \E symbol \in InstrumentSet : UpdStart(<<<<symbol, EarlyLastDate>>>>)

UpdNext ==
    \E j \in Rows : UStart(j) \/ UFetch(j) \/ UOpen(j) \/ UPut(j) \/ UReturn(j)

SpecUpdate == UpdInit /\ [][UpdNext]_vars

----------------------------------------------------------------------------
(* The scanner's main over the files of the data folder.                   *)

MaxFiles == 2

\* The most keys one file of the folder holds.
MaxFileKeys == 1

MainSlots ==
    {KeyOf("EURUSD", <<2024, 1, 2>>), KeyOf("EURUSD", <<2024, 1, 3>>),
     KeyOf("XAUUSD", <<2024, 1, 2>>)}

\* Good tables, and for one key an unreadable one as well.
MainTables ==
    [key \in MainSlots |->
        {OldTable(key)} \cup
        (IF key = KeyOf("EURUSD", <<2024, 1, 3>>) THEN {Table("unreadable", <<>>)} ELSE {})]

MainRanges ==
    {<<<<2024, 1, 2>>, <<2024, 1, 4>>>>, <<<<2024, 1, 3>>, <<2024, 2, 1>>>>}

MainInit ==
    /\ OnceIdle
    /\ PatchIdle
    /\ ScanIdle
    /\ ShardIdle
    /\ PipeIdle
    /\ UpdIdle
    /\ main_pc = "collect"
    /\ \E n \in 0..MaxFiles :
          /\ hdf5_files \in [1..n -> StoresUpTo(MainSlots, MaxFileKeys, MainTables)]
          /\ futures = 1..n
    /\ main_range \in MainRanges
    /\ all_last_updates = <<>>
    /\ all_missing_groups = <<>>
    /\ all_missing_tables = <<>>
    /\ grouped = None

MainNext == (\E n \in DOMAIN hdf5_files : MainCollect(n)) \/ MainGroup

SpecMain == MainInit /\ [][MainNext]_vars

----------------------------------------------------------------------------
(* Claims.                                                                 *)

FoldDone == phase \in {"decompose", "listing", "mergeraw", "done"}

\* C1: Fold is skip-if-exists: every key the canonical store held when
\* Fold opened it has the same table once Fold has finished, whatever the
\* temp files held under that key.
C1_FoldSkipIfExists ==
    FoldDone =>
        \A k \in DOMAIN final_pre.t :
            k \in DOMAIN final.t /\ final.t[k] = final_pre.t[k]

\* The instruments whose merge_instrument_file ran its loop to the end.
Merged(i) == mpc[i] = "done" /\ raw_pre[i].exists /\ split[i].exists

\* C2: Merge-into-raw is skip-if-exists: once merge_instrument_file has
\* returned, every key the raw store held before keeps its table, every
\* key of the decomposed file that was absent is there with the decomposed
\* file's table, and the raw store holds no other key; a raw file whose
\* merge has not run, or returned early, is as it was.
C2_MergeIntoRawSkipIfExists ==
    phase \in {"mergeraw", "done"} =>
        \A i \in InstrumentSet :
            IF Merged(i)
            THEN /\ raw[i].exists
                 /\ DOMAIN raw[i].t = (DOMAIN raw_pre[i].t) \cup (DOMAIN split[i].t)
                 /\ \A k \in DOMAIN raw_pre[i].t : raw[i].t[k] = raw_pre[i].t[k]
                 /\ \A k \in (DOMAIN split[i].t) \ (DOMAIN raw_pre[i].t) :
                        raw[i].t[k] = split[i].t[k]
            ELSE raw[i] = raw_pre[i]

\* A merge that met a key the raw store already held under another table,
\* and a key it did not hold.
C2_Witness ==
    \E i \in InstrumentSet :
        /\ Merged(i)
        /\ \E k \in (DOMAIN split[i].t) \cap (DOMAIN raw_pre[i].t) :
              split[i].t[k] # raw_pre[i].t[k]
        /\ (DOMAIN split[i].t) \ (DOMAIN raw_pre[i].t) # {}

\* C3: the skip-if-exists put is idempotent: putting (k, P) twice leaves
\* the store as putting it once does, and running merge_instrument_file
\* again with the same decomposed file leaves the raw store as the first
\* run left it.
C3_IdempotentMerge ==
    \A i \in InstrumentSet :
        /\ \A k \in DOMAIN split[i].t :
              LET once == skip_put(raw[i].t, k, split[i].t[k])
              IN skip_put(once, k, split[i].t[k]) = once
        /\ Merged(i) => MergeResult(raw[i].t, split[i].t) = raw[i].t

\* A finished merge that added a table to the raw store, and a state
\* before the merge in which the put of a decomposed key is not a no-op.
C3_Witness ==
    \E i \in InstrumentSet :
        /\ Merged(i)
        /\ raw[i] # raw_pre[i]
        /\ Cardinality(DOMAIN split[i].t) >= 2

\* The items of a sequence with their multiplicities.
BagOfSeq(seq) ==
    [x \in Range(seq) |-> Cardinality({j \in DOMAIN seq : seq[j] = x})]

\* C4: chunkify(L, N) returns N lists; their items, with multiplicity, are
\* exactly those of L; any two lengths differ by at most 1; 35 items over
\* 4 shards give the sizes 9, 9, 9, 8.
C4_ShardingComplete ==
    sh_out # None =>
        LET lst == sh_in[1]
            n == sh_in[2]
        IN /\ Len(sh_out) = n
           /\ BagOfSeq(Concat(sh_out)) = BagOfSeq(lst)
           /\ Len(Concat(sh_out)) = Len(lst)
           /\ \A a, b \in 1..n : Len(sh_out[a]) - Len(sh_out[b]) <= 1
           /\ (Len(lst) = 35 /\ n = 4) =>
                 [j \in 1..n |-> Len(sh_out[j])] = <<9, 9, 9, 8>>

\* chunkify has returned for a list that leaves a remainder and for which
\* some shards stay empty.
C4_Witness ==
    /\ sh_out # None
    /\ Len(sh_in[1]) > 0
    /\ Len(sh_in[1]) < sh_in[2]

\* The date range of the specification: start <= date < end.
InDateRange(date, range) ==
    /\ (range[1] = None \/ DateLE(range[1], date))
    /\ (range[2] = None \/ DateLT(date, range[2]))

Listed(list, instrument, date) == <<instrument, date>> \in Range(list)

\* C5: full-range scan (of a scan given a start and an end date): for
\* every instrument of the file and every date of the range that is no
\* Saturday, the date is good, in missing_tables or in missing_groups, and
\* in one of them only; a date with no partition is in missing_groups,
\* also when its month or year has no group.
C5_FullRangeScan ==
    (scan_pc = "done" /\ scan_range[1] # None /\ scan_range[2] # None) =>
        \A i \in Range(FileInstruments(scan_f)), date \in CalDates :
            (weekday(date) # 5 /\ InDateRange(date, scan_range)) =>
                LET key == KeyOf(i, date)
                    inG == Listed(missing_groups, i, date)
                    inT == Listed(missing_tables, i, date)
                IN /\ ~(inG /\ inT)
                   /\ key \notin DOMAIN scan_f => inG
                   /\ (key \in DOMAIN scan_f /\ scan_f[key].st = "good") => ~inG /\ ~inT
                   /\ (key \in DOMAIN scan_f /\ scan_f[key].st # "good") => inT

WorkerActor(w) == <<"worker", "", w>>

\* C6 (state part): a worker has only temp_worker_<its id>.h5 open for
\* writing, no file is open for writing by two actors, and while workers
\* run neither the canonical store nor a raw or decomposed file changes.
C6_Inv ==
    /\ \A e \in open_w :
          e[1][1] = "worker" => e[2] = <<"temp_worker", "", e[1][3]>>
    /\ \A e1, e2 \in open_w : e1[2] = e2[2] => e1 = e2
    /\ phase = "workers" => final = final_pre /\ raw = raw_pre

\* C6 (step part): while workers run, a temp file changes only in a step
\* of the worker of the same number, which has it open for writing.
C6_Act ==
    phase = "workers" =>
        /\ final' = final /\ raw' = raw /\ split' = split
        /\ \A w \in Workers :
              temp'[<<"temp_worker", "", w>>] # temp[<<"temp_worker", "", w>>] =>
                  /\ wpc[w] \in {"open", "put"}
                  /\ wpc'[w] # wpc[w]
                  /\ <<WorkerActor(w), <<"temp_worker", "", w>>>> \in (open_w \cup open_w')

\* C6: exclusive temp files.
C6_ExclusiveTempFiles == []C6_Inv /\ [][C6_Act]_vars

\* Two workers have their temp files open for writing at once.
C6_Witness ==
    /\ phase = "workers"
    /\ Cardinality({e \in open_w : e[1][1] = "worker"}) >= 2

AllWorkersFinished == \A w \in Workers : wpc[w] \in {"done", "raised"}

\* C7 (state part): Fold has the canonical store open only after every
\* worker has finished; a merge runs only after Decompose, which runs only
\* after Fold has closed the canonical store.
C7_Inv ==
    /\ phase # "workers" => AllWorkersFinished
    /\ (\E e \in open_w : e[1][1] \in {"fold", "merge"}) => AllWorkersFinished
    /\ phase \in {"listing", "mergeraw", "done"} =>
          /\ fold_i > Len(temp_files)
          /\ ~\E e \in open_w : e[1][1] = "fold"
    /\ (\E i \in InstrumentSet : mpc[i] # "none") => phase \in {"mergeraw", "done"}

\* C7 (step part): the canonical store changes only in a step of Fold, a
\* raw file only in a step of Merge-into-raw, a decomposed file only in
\* the Decompose step; none of them while a worker is unfinished.
C7_Act ==
    /\ final' # final => phase \in {"fold", "folding"} /\ AllWorkersFinished
    /\ raw' # raw => phase = "mergeraw" /\ AllWorkersFinished
    /\ split' # split =>
          /\ phase = "decompose"
          /\ AllWorkersFinished
          /\ fold_i > Len(temp_files)

\* C7: stage ordering of a backfill run.
C7_StageOrdering == []C7_Inv /\ [][C7_Act]_vars

\* A run that has written the canonical store and a raw file.
C7_Witness ==
    /\ phase = "done"
    /\ final # final_pre
    /\ raw # raw_pre

\* C8: worker failure isolation: worker never raises to its caller, and
\* when it returns it has passed every task of its chunk to the tick
\* source, in order, whatever the earlier fetches did.
C8_WorkerFailureIsolation ==
    \A w \in Workers :
        /\ wpc[w] # "raised"
        /\ wpc[w] = "done" =>
              /\ Len(fetched[w]) = Len(ChunkOf(w))
              /\ \A j \in DOMAIN fetched[w] : fetched[w][j].task = ChunkOf(w)[j]
        /\ Len(fetched[w]) <= Len(ChunkOf(w))

\* A worker returned after a fetch that raised and a fetch that returned
\* nothing were each followed by a fetch that returned data.
C8_Witness ==
    \E w, v \in Workers :
        /\ wpc[w] = "done" /\ wpc[v] = "done"
        /\ Len(fetched[w]) >= 2 /\ Len(fetched[v]) >= 2
        /\ fetched[w][1].res = "raised" /\ fetched[w][2].res = "data"
        /\ fetched[v][1].res = "empty" /\ fetched[v][2].res = "data"

\* The (instrument, date) pairs of the file's tables on dates the scan
\* classifies: no Saturday, and inside the range for a table that is not
\* good.
CorruptInRange ==
    {k \in DOMAIN scan_f :
        /\ scan_f[k].st # "good"
        /\ weekday(<<k[2], k[3], k[4]>>) # 5
        /\ InDateRange(<<k[2], k[3], k[4]>>, scan_range)}

GoodKeys == {k \in DOMAIN scan_f :
                scan_f[k].st = "good" /\ weekday(<<k[2], k[3], k[4]>>) # 5}

\* C9: corrupt partition not fatal: scan_hdf5 never raises; when it has
\* returned, every unreadable table of a date in range is in
\* missing_tables, and every good table of the file has been classified:
\* its instrument has a last-good-date no earlier than it.
C9_CorruptNotFatal ==
    /\ scan_pc # "raised"
    /\ scan_pc = "done" =>
          /\ \A k \in CorruptInRange :
                Listed(missing_tables, k[1], <<k[2], k[3], k[4]>>)
          /\ \A k \in GoodKeys :
                \E u \in Range(last_updates) :
                    u[1] = k[1] /\ DateLE(<<k[2], k[3], k[4]>>, u[2])

\* The scan has returned for a file with an unreadable table followed, for
\* the same instrument, by a good one.
C9_Witness ==
    /\ scan_pc = "done"
    /\ \E k \in CorruptInRange, g \in GoodKeys :
          /\ scan_f[k].st = "unreadable"
          /\ k[1] = g[1]
          /\ DateLT(<<k[2], k[3], k[4]>>, <<g[2], g[3], g[4]>>)
          /\ Listed(missing_tables, k[1], <<k[2], k[3], k[4]>>)
          /\ Listed(last_updates, g[1], <<g[2], g[3], g[4]>>)

\* C10: weekday exclusion: no Saturday is ever in missing_groups, in
\* missing_tables or a last-good-date, whatever the file holds for it.
C10_WeekdayExclusion ==
    /\ \A e \in Range(missing_groups) \cup Range(missing_tables) \cup Range(last_updates) :
          weekday(e[2]) # 5
    /\ last_good_date # None => weekday(last_good_date) # 5

\* The scan has returned for a file that holds a partition on a Saturday
\* inside the range.
C10_Witness ==
    /\ scan_pc = "done"
    /\ \E k \in DOMAIN scan_f :
          /\ weekday(<<k[2], k[3], k[4]>>) = 5
          /\ InScanRange(<<k[2], k[3], k[4]>>, scan_range)

\* The last-good-date entries of one instrument in the scan's result.
UpdatesOf(instrument) ==
    SelectSeq(last_updates, LAMBDA u : u[1] = instrument)

\* The latest date among the keys of a non-empty set.
LatestDate(ks) ==
    CHOOSE d \in {<<k[2], k[3], k[4]>> : k \in ks} :
        \A k \in ks : DateLE(<<k[2], k[3], k[4]>>, d)

\* A step of the scan that assigns last_good_date while it holds a date
\* does not move it back.
C11_Act ==
    (last_good_date # None /\ last_good_date' # None)
        => DateLE(last_good_date, last_good_date')

\* When the scan has returned, an instrument with a good table on a date
\* that is not excluded has one entry, the latest such date; an instrument
\* with none has no entry.
C11_Inv ==
    scan_pc = "done" =>
        \A i \in InstrumentSet :
            LET good == {k \in GoodKeys : k[1] = i}
            IN IF good = {} THEN UpdatesOf(i) = <<>>
               ELSE UpdatesOf(i) = <<<<i, LatestDate(good)>>>>

\* C11: monotonic last-good-date: within the scan of one instrument
\* last_good_date never decreases from one assignment to the next, and the
\* value reported for the instrument is the latest date, Saturdays
\* excluded, whose partition is present and readable.
C11_MonotonicLastGoodDate == []C11_Inv /\ [][C11_Act]_vars

\* The scan has returned for a file in which one instrument has good
\* tables on two dates of different months; the later one is reported.
C11_Witness ==
    /\ scan_pc = "done"
    /\ \E k \in GoodKeys, g \in GoodKeys :
          /\ k[1] = g[1]
          /\ k[3] < g[3]
          /\ UpdatesOf(g[1]) = <<<<g[1], <<g[2], g[3], g[4]>>>>>>

\* The store of the scenario: good EURUSD tables on 2024-01-02 and
\* 2024-01-04 and nothing else.
C12_Scenario ==
    /\ DOMAIN scan_f = {KeyOf("EURUSD", <<2024, 1, 2>>), KeyOf("EURUSD", <<2024, 1, 4>>)}
    /\ \A k \in DOMAIN scan_f : scan_f[k].st = "good"

\* C12: clean-backfill scan scenario as stated: the scan of the scenario
\* store over [2024-01-01, 2024-01-05), the end given to the scanner as
\* 2024-01-05 or as the last included day 2024-01-04, reports
\* missing_groups = [2024-01-03] and last_good_date = 2024-01-04.
C12_CleanBackfillScan ==
    (/\ scan_pc = "done"
     /\ C12_Scenario
     /\ scan_range \in {<<<<2024, 1, 1>>, <<2024, 1, 5>>>>, <<<<2024, 1, 1>>, <<2024, 1, 4>>>>})
        => /\ missing_groups = <<<<"EURUSD", <<2024, 1, 3>>>>>>
           /\ last_updates = <<<<"EURUSD", <<2024, 1, 4>>>>>>

\* C12 amended: with --start-date 2024-01-01 --end-date 2024-01-05 the scan
\* of the scenario store reports missing_groups = [2024-01-01, 2024-01-03,
\* 2024-01-05] (2024-01-01 is a Monday with no partition, and the end date
\* is included) and last_good_date = 2024-01-04.
C12_CleanBackfillScanAmended ==
    (/\ scan_pc = "done"
     /\ C12_Scenario
     /\ scan_range = <<<<2024, 1, 1>>, <<2024, 1, 5>>>>)
        => /\ missing_groups = <<<<"EURUSD", <<2024, 1, 1>>>>, <<"EURUSD", <<2024, 1, 3>>>>,
                                 <<"EURUSD", <<2024, 1, 5>>>>>>
           /\ last_updates = <<<<"EURUSD", <<2024, 1, 4>>>>>>
           /\ missing_tables = <<>>

\* The scan of the scenario store over 2024-01-01 .. 2024-01-05 has
\* returned.
C12_Witness ==
    /\ scan_pc = "done"
    /\ C12_Scenario
    /\ scan_range = <<<<2024, 1, 1>>, <<2024, 1, 5>>>>
    /\ Len(missing_groups) = 3

\* C15: BackfillWorker stores with append policy: when the worker puts the
\* records of a day under a key its temp store already holds, the table
\* after the put is the rows held before followed by the new rows.
C15_WorkerAppendPolicy ==
    [][\A w \in Workers :
          (wpc[w] = "put" /\ wpc'[w] = "fetch") =>
              LET task == ChunkOf(w)[wi[w]]
                  old == temp[TempFile(w)].t
                  new == temp'[TempFile(w)].t
              IN \A g \in Range(GroupDates(wdata[w])) :
                    LET key == KeyOf(task[1], g)
                        group == SelectSeq(wdata[w], LAMBDA r : DateOfTs(r.timestamp) = g)
                    IN key \in DOMAIN old =>
                          /\ key \in DOMAIN new
                          /\ new[key].rows = old[key].rows \o group]_vars

\* After decompose_by_instrument the output file of every instrument with
\* a canonical key holds the canonical tables of that instrument and no
\* other key.
C16_Inv ==
    phase \in {"listing", "mergeraw", "done"} =>
        \A i \in InstrumentSet :
            InstrumentKeys(final.t, i) # {} =>
                /\ split[i].exists
                /\ DOMAIN split[i].t = InstrumentKeys(final.t, i)
                /\ \A k \in DOMAIN split[i].t : split[i].t[k] = final.t[k]

\* decompose_by_instrument leaves the canonical store as it is.
C16_Act == phase = "decompose" => final' = final

\* C16: Decompose: for every instrument with a key in the canonical store
\* the output file holds exactly the canonical keys of that instrument,
\* each with the canonical table: no key of another instrument and none
\* left from an earlier output file; the canonical store is unchanged.
C16_Decompose == []C16_Inv /\ [][C16_Act]_vars

\* decompose_by_instrument has run with canonical keys of two instruments,
\* one of which had an output file of an earlier run holding a key the
\* canonical store does not hold.
C16_Witness ==
    /\ phase = "listing"
    /\ \E i, j \in InstrumentSet :
          /\ i # j
          /\ InstrumentKeys(final.t, i) # {}
          /\ InstrumentKeys(final.t, j) # {}
          /\ split_pre[i].exists
          /\ (DOMAIN split_pre[i].t) \ (DOMAIN final.t) # {}

\* The call of merge_instrument_file for an instrument without a raw file
\* (or without a decomposed file) returns and changes no store.
C18_Act ==
    \A i \in InstrumentSet :
        (/\ phase = "mergeraw"
         /\ mpc[i] = "queued"
         /\ mpc'[i] # "queued"
         /\ (~raw[i].exists \/ ~split[i].exists))
            => /\ mpc'[i] = "done"
               /\ raw' = raw
               /\ split' = split
               /\ final' = final
               /\ temp' = temp

\* No raw file appears during the merge.
C18_Inv ==
    phase \in {"mergeraw", "done"} =>
        \A i \in InstrumentSet : ~raw_pre[i].exists => raw[i] = NoFile

\* C18: Merge-into-raw never bootstraps: for an instrument whose raw file
\* (or decomposed file) does not exist merge_instrument_file returns
\* without creating a raw file and without changing any store.
C18_MergeNeverBootstraps == []C18_Inv /\ [][C18_Act]_vars

\* The merge pool has finished with an instrument that has a decomposed
\* file holding tables and no raw file.
C18_Witness ==
    /\ phase = "done"
    /\ \E i \in InstrumentSet :
          /\ mpc[i] = "done"
          /\ split[i].exists
          /\ DOMAIN split[i].t # {}
          /\ ~raw_pre[i].exists
          /\ ~raw[i].exists

\* The step in which row j's call of store_tick_data stores tick_data[j]
\* into the raw file of its symbol: every key derived from the records
\* gets the records of its day, after those the table held if it existed;
\* no other key of the file and no other file changes.
C14_Act(j) ==
    (upc[j] = "put" /\ upc'[j] # "put") =>
        LET symbol == symbols_dates[j][1]
            old == raw[symbol].t
            new == raw'[symbol].t
            dates == Range(GroupDates(tick_data[j]))
            written == {KeyOf(symbol, g) : g \in dates}
        IN /\ upc'[j] = "fetch" =>
                /\ DOMAIN new = (DOMAIN old) \cup written
                /\ \A g \in dates :
                      LET key == KeyOf(symbol, g)
                          group == SelectSeq(tick_data[j],
                                             LAMBDA r : DateOfTs(r.timestamp) = g)
                      IN new[key].rows =
                            IF key \in DOMAIN old THEN old[key].rows \o group ELSE group
           /\ \A k \in (DOMAIN old) \ written : k \in DOMAIN new /\ new[k] = old[k]
           /\ \A i \in InstrumentSet \ {symbol} : raw'[i] = raw[i]

\* C14: append policy of store_tick_data: a key without a table gets
\* exactly the new records; a key with a table gets the existing records
\* followed by the new ones; the tables at all other keys are unchanged.
C14_AppendPolicy == [][\A j \in Rows : C14_Act(j)]_vars

\* Two rows of the same symbol have stored the records of the same day:
\* the table holds them twice.
C14_Witness ==
    \E j, v \in Rows :
        /\ j # v
        /\ symbols_dates[j][1] = symbols_dates[v][1]
        /\ upc[j] = "done" /\ upc[v] = "done"
        /\ \E d \in Range(calls[j]) \cap Range(calls[v]) :
              LET key == KeyOf(symbols_dates[j][1], d)
              IN /\ key \in DOMAIN raw[symbols_dates[j][1]].t
                 /\ Len(raw[symbols_dates[j][1]].t[key].rows) = 2
                 /\ raw[symbols_dates[j][1]].t[key].rows[1] =
                       raw[symbols_dates[j][1]].t[key].rows[2]

RECURSIVE DatesFrom(_, _)
\* The calendar dates d with first <= d < last, ascending.
DatesFrom(first, last) ==
    IF ~DateLT(first, last) THEN <<>>
    ELSE <<first>> \o DatesFrom(NextDay(first), last)

\* The trading days among them: no Saturday.
TradingDatesFrom(first, last) ==
    SelectSeq(DatesFrom(first, last), LAMBDA d : weekday(d) # 5)

\* C19: IncrementalUpdater date sequence: a run of run_fetch that went
\* through its loop has called the tick source once for each trading day d
\* with last_good_date + 1 <= d < end_date, in ascending order, and for no
\* other date; a row with last_good_date + 1 >= end_date fetches nothing
\* and never opens the raw store.
C19_UpdaterDateSequence ==
    \A j \in Rows :
        /\ upc[j] = "done" =>
              calls[j] = TradingDatesFrom(NextDay(symbols_dates[j][2]), end_date)
        /\ DateLE(end_date, NextDay(symbols_dates[j][2])) =>
              /\ calls[j] = <<>>
              /\ upc[j] \in {"queued", "skipped"}

\* C20: GapGrouper output order: when main has grouped the reports of the
\* scanned files, the list of every instrument holds each missing date at
\* most once and in ascending date order.
C20_GrouperOutputOrder ==
    main_pc = "done" =>
        \A i \in DOMAIN grouped :
            \A a, b \in DOMAIN grouped[i] :
                a < b => DateLT(grouped[i][a], grouped[i][b])

\* The date was reported missing by a scan of the instrument's raw file as
\* it was before the merge.
ReportedMissing(files, instrument, date, range) ==
    /\ files[instrument].exists
    /\ <<instrument, date>> \in
          Range(process_file(files[instrument].t, range).missing_groups)

\* C13: gap repair: when the run has finished, every (instrument, date)
\* that a scan of the existing raw file reported in missing_groups, for
\* which the tick source returned records of that day and the worker
\* stored them, has a partition in the raw store, and a second scan with
\* the same range no longer lists the date in missing_groups.
C13_GapRepair ==
    phase = "done" =>
        \A w \in Workers : \A j \in DOMAIN fetched[w] :
            LET instrument == fetched[w][j].task[1]
                date == fetched[w][j].task[2]
            IN \A range \in ScanRanges :
                  (/\ fetched[w][j].res = "data"
                   /\ ReportedMissing(raw_pre, instrument, date, range))
                     => /\ KeyOf(instrument, date) \in DOMAIN raw[instrument].t
                        /\ ~ReportedMissing(raw, instrument, date, range)

\* A temp file Fold can read to its end.
GoodTemp(f) == f.exists /\ \A k \in DOMAIN f.t : f.t[k].st = "good"

\* C17: Fold skips bad temp files: merge_hdf5_files does not raise, and
\* when it has returned, every key of every temp file it could read is in
\* the canonical store with the table of a temp file, whatever the other
\* temp files were: missing, empty or raising while being read.
C17_FoldSkipsBadTempFiles ==
    /\ phase # "raised"
    /\ FoldDone =>
          \A n \in Range(temp_files) :
              GoodTemp(temp_pre[n]) =>
                  \A k \in DOMAIN temp_pre[n].t :
                      /\ k \in DOMAIN final.t
                      /\ \E m \in Range(temp_files) :
                            /\ k \in DOMAIN temp_pre[m].t
                            /\ final.t[k] = temp_pre[m].t[k]

\* Fold has returned after a first temp file whose read raised and a later
\* temp file with tables, which are in the canonical store.
C17_Witness ==
    /\ FoldDone
    /\ \E a, b \in DOMAIN temp_files :
          /\ a < b
          /\ temp_pre[temp_files[a]].exists
          /\ \E k \in DOMAIN temp_pre[temp_files[a]].t :
                temp_pre[temp_files[a]].t[k].st = "unreadable"
          /\ GoodTemp(temp_pre[temp_files[b]])
          /\ DOMAIN temp_pre[temp_files[b]].t # {}
          /\ \A k \in DOMAIN temp_pre[temp_files[b]].t :
                k \in DOMAIN final.t /\ final.t[k] = temp_pre[temp_files[b]].t[k]

\* C24: no partition is lost by Fold: in the step in which merge_hdf5_files
\* removes a temp file, every readable table the file held is in the
\* canonical store.
C24_NoPartitionLostByFold ==
    [][\A n \in Range(temp_files) :
          (phase = "folding" /\ temp[n].exists /\ ~temp'[n].exists) =>
              \A k \in DOMAIN temp[n].t :
                  Readable(temp[n].t, k) =>
                      k \in DOMAIN final'.t /\ final'.t[k] = temp[n].t[k]]_vars

\* C26: single writer per raw file in the updater: for the rows of a
\* last-good-date report (no Saturday among the dates), no two running
\* run_fetch tasks have the raw file of one instrument open at a time.
C26_SingleWriterPerRawFile ==
    (\A j \in Rows : weekday(symbols_dates[j][2]) # 5) =>
        \A a, b \in open_w :
            (a[1][1] = "update" /\ b[1][1] = "update" /\ a[2] = b[2]) => a = b

\* The tasks passed to the tick source so far, worker after worker.
FetchedTasks ==
    Concat([n \in 1..NumChunks |->
               [k \in DOMAIN fetched[n - 1] |-> fetched[n - 1][k].task]])

\* C27: exactly-once fetch per run: no item of the flattened task list is
\* passed to the tick source more often than the list holds it, by any
\* worker, and when every worker has finished each item has been passed
\* exactly that often, whatever the fetches returned.
C27_ExactlyOnceFetch ==
    /\ BagOfSeq(FetchedTasks) \sqsubseteq BagOfSeq(all_tasks)
    /\ AllWorkersFinished => BagOfSeq(FetchedTasks) = BagOfSeq(all_tasks)

\* Every worker has finished a run of at least three tasks in which one
\* fetch raised, one returned nothing and one returned data.
C27_Witness ==
    /\ AllWorkersFinished
    /\ Len(all_tasks) >= 3
    /\ Len(FetchedTasks) = Len(all_tasks)
    /\ \A r \in {"raised", "empty", "data"} :
          \E w \in Workers : \E j \in DOMAIN fetched[w] : fetched[w][j].res = r

\* C28: updater per-day error isolation: when run_fetch has returned,
\* also after an error while fetching or storing one day, the tick source
\* has been called for every date from last_good_date + 1 up to end_date.
C28_UpdaterErrorIsolation ==
    \A j \in Rows :
        upc[j] \in {"done", "failed"} =>
            \A d \in Range(DatesFrom(NextDay(symbols_dates[j][2]), end_date)) :
                d \in Range(calls[j])

\* The orders in which the temp files can be listed.
TempOrders ==
    {p \in [DOMAIN temp_files -> Range(temp_files)] :
        \A a, b \in DOMAIN temp_files : a # b => p[a] # p[b]}

----------------------------------------------------------------------------
(* The backfill run and the incremental updater side by side: the two       *)
(* scripts write the same raw store files.                                 *)

StoresInit ==
    /\ OnceIdle
    /\ PatchIdle
    /\ ScanIdle
    /\ ShardIdle
    /\ MainIdle
    /\ \E dates \in DateLists, raw0 \in RawChoices :
          PipeStart(Flatten([i \in InstrumentSet |->
                                IF i = "EURUSD" THEN dates ELSE <<>>]),
                    NoFile, [i \in InstrumentSet |-> NoFile], raw0)
    /\ \E last \in LastDates \cup {EarlyLastDate} : UpdStart(<<<<"EURUSD", last>>>>)

StoresNext == Next \/ UpdNext

SpecStores == StoresInit /\ [][StoresNext]_vars

\* Every record of the store is held under the key of its own UTC date.
KeyDateOK(store) ==
    \A k \in DOMAIN store :
        \A j \in DOMAIN store[k].rows :
            DateOfTs(store[k].rows[j].timestamp) = <<k[2], k[3], k[4]>>

\* C23: in every store (worker temp files, canonical store, decomposed
\* files, raw files), whatever the workers, the updater, Fold, Decompose
\* and Merge-into-raw have done, every record under instrument/yYYYY/mMM/dDD
\* has a timestamp whose UTC date is YYYY-MM-DD.
C23_KeyTimestampInvariant ==
    /\ \A n \in Range(temp_files) : KeyDateOK(temp[n].t)
    /\ KeyDateOK(final.t)
    /\ \A i \in InstrumentSet : KeyDateOK(split[i].t) /\ KeyDateOK(raw[i].t)

\* The backfill run and the updater have ended, and each has left in the
\* raw file a midnight record of the day after the date that was requested:
\* under d04 by the backfill of 2024-01-03, under d07 by the update of
\* 2024-01-06.
C23_Witness ==
    /\ phase = "done"
    /\ \A j \in Rows : upc[j] = "done"
    /\ \A d \in {<<2024, 1, 4>>, <<2024, 1, 7>>} :
          /\ KeyOf("EURUSD", d) \in DOMAIN raw["EURUSD"].t
          /\ \E j \in DOMAIN raw["EURUSD"].t[KeyOf("EURUSD", d)].rows :
                raw["EURUSD"].t[KeyOf("EURUSD", d)].rows[j].timestamp = TsOf(d, 0)
    /\ <<"EURUSD", <<2024, 1, 3>>>> \in Range(all_tasks)
    /\ <<"EURUSD", <<2024, 1, 4>>>> \notin Range(all_tasks)

----------------------------------------------------------------------------
(* The scanner's main over the raw store files, then the backfill run that  *)
(* reads the scanner's missing_day_group.csv.                              *)

\* The raw files the scan finds: EURUSD with a table on 2024-01-02 and, on
\* 2024-01-03, no table, a good table or a table that cannot be read, and
\* with or without a table on 2024-01-04; XAUUSD absent, or with tables
\* on 2024-01-02 and 2024-01-03.
RepairRaws ==
    {[i \in InstrumentSet |->
        IF i = "EURUSD"
        THEN File([k \in {KeyOf(i, <<2024, 1, 2>>)} \cup wed \cup thu |->
                     IF k = KeyOf(i, <<2024, 1, 3>>) /\ st = "unreadable"
                     THEN Table("unreadable", <<>>) ELSE OldTable(k)])
        ELSE IF xau THEN File(StoreOfKeys({KeyOf(i, <<2024, 1, 2>>),
                                           KeyOf(i, <<2024, 1, 3>>)}))
        ELSE NoFile] :
     wed \in {{}, {KeyOf("EURUSD", <<2024, 1, 3>>)}},
     thu \in {{}, {KeyOf("EURUSD", <<2024, 1, 4>>)}},
     st \in {"good", "unreadable"},
     xau \in BOOLEAN}

\* h5_files = [f for f in os.listdir(folder_path) if f.lower().endswith(".h5")]
ListedFiles(files) ==
    LET present == SelectSeq(Instruments, LAMBDA i : files[i].exists)
    IN [j \in DOMAIN present |-> files[present[j]].t]

RepairInit ==
    /\ OnceIdle
    /\ PatchIdle
    /\ ScanIdle
    /\ ShardIdle
    /\ UpdIdle
    /\ \E raw0 \in RepairRaws :
          /\ PipeStartWith(<<>>, [n \in Range(temp_files) |-> NoFile], NoFile,
                           [i \in InstrumentSet |-> NoFile], raw0) 
          /\ hdf5_files = ListedFiles(raw0)
    /\ main_pc = "collect"
    /\ futures = DOMAIN hdf5_files
    /\ main_range = <<<<2024, 1, 2>>, <<2024, 1, 4>>>>
    /\ all_last_updates = <<>>
    /\ all_missing_groups = <<>>
    /\ all_missing_tables = <<>>
    /\ grouped = None

\* The rows of missing_day_group.csv, one per key of grouped_missing in
\* the order the keys were inserted (write_grouped_csv), flattened as
\* parallel_patch.py flattens instrument_dates.
CsvTasks ==
    LET firsts == {j \in DOMAIN all_missing_groups :
                      \A i \in 1..(j - 1) :
                          all_missing_groups[i][1] # all_missing_groups[j][1]}
        order == SortedSeq(firsts)
    IN Concat([n \in DOMAIN order |->
                  LET instr == all_missing_groups[order[n]][1]
                  IN [m \in DOMAIN grouped[instr] |-> <<instr, grouped[instr][m]>>]])

\* parallel_patch.py up to task_chunks = chunkify(all_tasks, 32), run
\* after the scan has written its CSV files.
PatchRead ==
    /\ main_pc = "done"
    /\ phase = "workers"
    /\ all_tasks = <<>>
    /\ CsvTasks # <<>>
    /\ \A w \in Workers : wpc[w] = "queued"
    /\ all_tasks' = CsvTasks
    /\ task_chunks' = chunkify(CsvTasks, NumChunks)
    /\ UNCHANGED <<phase, wpc, wi, wdata, fetched, temp, final, split, raw, fold_i,
                   mpc, open_w, final_pre, temp_pre, raw_pre, split_pre>>
    /\ UNCHANGED <<scan_vars, shard_vars, upd_vars, main_vars, twice_vars, patch_vars>>

\* The backfill run starts when the scan has written its CSV files.
RepairNext ==
    \/ MainNext
    \/ PatchRead
    \/ main_pc = "done" /\ (all_tasks # <<>> \/ CsvTasks = <<>>) /\ Next

SpecRepair == RepairInit /\ [][RepairNext]_vars

\* The task was fetched and the tick source returned records.
FetchSucceeded(task) ==
    \E w \in Workers : \E j \in DOMAIN fetched[w] :
        fetched[w][j].task = task /\ fetched[w][j].res = "data"

\* C21: a partition of a raw store the scanner reports in missing_tables
\* is a work item of the backfill run that follows the scan and, when the
\* fetch of that item returned records, the raw store holds a readable
\* table under its key once Merge-into-raw has completed.
C21_CorruptPartitionRepair ==
    (main_pc = "done" /\ phase = "done") =>
        \A j \in DOMAIN all_missing_tables :
            LET e == all_missing_tables[j]
            IN /\ e \in Range(all_tasks)
               /\ FetchSucceeded(e) => Readable(raw[e[1]].t, KeyOf(e[1], e[2]))

----------------------------------------------------------------------------
(* The backfill run, then the same script run again on the files the first  *)
(* run left, with the same CSV file and a tick source that answers the      *)
(* same request the same way.                                              *)

TwiceInit ==
    /\ ScanIdle
    /\ ShardIdle
    /\ UpdIdle
    /\ MainIdle
    /\ PatchIdle
    /\ run = 1
    /\ raw_first = <<>>
    /\ fetched_first = <<>>
    /\ \E dates \in DateLists, temp0 \in LeftoverTemps, final0 \in FinalChoices,
          raw0 \in RawChoices :
          LET tasks == Flatten([i \in InstrumentSet |->
                                   IF i = "EURUSD" THEN dates ELSE <<>>])
          IN /\ PipeStartWith(tasks, temp0, final0, [i \in InstrumentSet |-> NoFile], raw0)
             /\ source \in {f \in [Range(tasks) ->
                                     UNION {FetchOutcomes(t[2]) : t \in Range(tasks)}] :
                               \A t \in Range(tasks) : f[t] \in FetchOutcomes(t[2])}

\* python parallel_patch.py once more, after the first run has ended: the
\* files are as the first run left them, the script's globals are new.
RunAgain ==
    /\ phase = "done"
    /\ run = 1
    /\ run' = 2
    /\ raw_first' = raw
    /\ fetched_first' = fetched
    /\ phase' = "workers"
    /\ wpc' = [w \in Workers |-> "queued"]
    /\ wi' = [w \in Workers |-> 1]
    /\ wdata' = [w \in Workers |-> <<>>]
    /\ fetched' = [w \in Workers |-> <<>>]
    /\ fold_i' = 1
    /\ mpc' = [i \in InstrumentSet |-> "none"]
    /\ UNCHANGED <<all_tasks, task_chunks, temp, final, split, raw, open_w,
                   final_pre, temp_pre, raw_pre, split_pre, source>>
    /\ UNCHANGED <<scan_vars, shard_vars, upd_vars, main_vars, patch_vars>>

TwiceNext == Next \/ RunAgain

SpecTwice == TwiceInit /\ [][TwiceNext]_vars

\* C22: when the script has run to its end twice with the same work items,
\* the tick source answering each request the second time as it did the
\* first time (and every worker's stores into its temp file ending as they
\* did the first time), every raw store is as the first run left it, and
\* nothing in the second run raised.
C22_RerunConvergence ==
    run = 2 =>
        /\ phase # "raised"
        /\ \A w \in Workers : wpc[w] # "raised"
        /\ (phase = "done" /\ fetched = fetched_first) => raw = raw_first

----------------------------------------------------------------------------
(* patch.py (one process_instrument per instrument of the CSV file) and     *)
(* manual_update.py (one call over a range of dates).                       *)

\* The date lists of patch.py's CSV rows.
PatchDateLists ==
    {<<<<2024, 1, 3>>>>, <<<<2024, 1, 4>>, <<2024, 1, 3>>>>}

\* exempted_days.csv before the script: absent, or with a row of an
\* earlier run.
CsvChoices ==
    {[exists |-> FALSE, rows |-> <<>>],
     [exists |-> TRUE, rows |-> <<<<"EURUSD", <<2024, 1, 2>>>>>>]}

PatchInit ==
    /\ ScanIdle
    /\ ShardIdle
    /\ UpdIdle
    /\ MainIdle
    /\ OnceIdle
    /\ \E raw0 \in {[i \in InstrumentSet |-> NoFile],
                    [i \in InstrumentSet |-> File(StoreOfKeys({KeyOf(i, <<2024, 1, 3>>)}))]} :
          PipeStart(<<>>, NoFile, [i \in InstrumentSet |-> NoFile], raw0)
    /\ \E csv0 \in CsvChoices :
          \/ \E S \in (SUBSET InstrumentSet) \ {{}} :
                \E instrument_dates \in [S -> PatchDateLists] :
                    PatchStart([i \in S |-> PatchCalls(instrument_dates[i])], csv0)
          \/ \E asset \in InstrumentSet :
                PatchStart([i \in {asset} |-> <<<<<<2024, 1, 3>>, <<2024, 1, 5>>>>>>], csv0)

PatchNext ==
    \/ \E i \in PThreads : PStart(i)
    \/ \E i \in PThreads : PFetch(i)
    \/ \E i \in PThreads : PLoopEnd(i)
    \/ \E i \in PThreads : PCsvRead(i)
    \/ \E i \in PThreads : PCsvWrite(i)

SpecPatch == PatchInit /\ [][PatchNext]_vars

\* The fetch failures C29 lists: non-zero exit, timeout, undecodable
\* output, empty result.
TransientFailures == {"exit_nonzero", "timeout", "bad_json", "empty"}

\* C29: in a call of fetch_and_store_tick_data every day fetched so far
\* whose fetch failed is in exempted_days, and when the while loop has
\* ended with such days, every day of [start_date, end_date) has been
\* fetched (the loop went on after each failure, nothing was raised).
C29_TransientFailuresRecorded ==
    \A i \in PThreads :
        /\ \A j \in DOMAIN p_log[i] :
              p_log[i][j].kind \in TransientFailures =>
                  <<i, p_log[i][j].date>> \in Range(exempted_days[i])
        /\ ppc[i] \in {"csv", "write"} =>
              [j \in DOMAIN p_log[i] |-> p_log[i][j].date]
                  = DatesFrom(CallOf(i)[1], CallOf(i)[2])

\* C30: when every process_instrument task has finished, exempted_days.csv
\* holds every row of every list a task wrote to it.
C30_NoLostExemptions ==
    (\A i \in PThreads : ppc[i] = "done") => p_added \subseteq Range(exempted_csv.rows)

====
